---- MODULE Spec2Model ----
(***************************************************************************)
(* Model of the PublicationFormatter component                             *)
(* (src/app/components/PublicationFormatter.tsx): the manuscript           *)
(* formatting pipeline, the journal-format registry and the host state of  *)
(* the React component.                                                    *)
(*                                                                         *)
(* A JavaScript string is a sequence of one-character strings.  Rational   *)
(* numbers (line spacing, margins) are kept in hundredths.  A nullable     *)
(* value is a sequence of length at most one: <<>> is null, <<v>> is v.    *)
(***************************************************************************)
EXTENDS Integers, Sequences, FiniteSets, TLC

----------------------------------------------------------------------------
(* Characters and character classes of the regular expressions used.       *)

LowerLetters == <<"a", "b", "c", "d", "e", "f", "g", "h", "i", "j", "k", "l", "m",
                  "n", "o", "p", "q", "r", "s", "t", "u", "v", "w", "x", "y", "z">>

UpperLetters == <<"A", "B", "C", "D", "E", "F", "G", "H", "I", "J", "K", "L", "M",
                  "N", "O", "P", "Q", "R", "S", "T", "U", "V", "W", "X", "Y", "Z">>

LowerSet == {LowerLetters[i] : i \in 1..Len(LowerLetters)}

UpperSet == {UpperLetters[i] : i \in 1..Len(UpperLetters)}

DigitChars == <<"0", "1", "2", "3", "4", "5", "6", "7", "8", "9">>

DigitSet == {DigitChars[i] : i \in 1..Len(DigitChars)}

\* \s of a JavaScript regular expression and the characters trim() strips
Whitespace == {" ", "\n", "\t", "\r"}

\* \w of a JavaScript regular expression
WordChars == LowerSet \cup UpperSet \cup DigitSet \cup {"_"}

UpperOf == [c \in LowerSet |-> UpperLetters[CHOOSE i \in 1..26 : LowerLetters[i] = c]]

LowerOf == [c \in UpperSet |-> LowerLetters[CHOOSE i \in 1..26 : UpperLetters[i] = c]]

\* String.prototype.toUpperCase on one character; the sharp s has no
\* one-character upper case and becomes "SS"
upperChar(c) ==
  IF c \in LowerSet THEN <<UpperOf[c]>>
  ELSE IF c = "ß" THEN <<"S", "S">>
  ELSE <<c>>

\* case folding of a regular expression with the i flag (ASCII letters)
foldChar(c) == IF c \in UpperSet THEN LowerOf[c] ELSE c

---------------------------------------------------------------------------------------------------------------------------------------------------
(* String primitives.  They recurse over halves, over matches or over      *)
(* digits, never over every character, so that long texts stay within the  *)
(* evaluator's stack.                                                      *)

\* the concatenation of a sequence of strings
Flatten(ss) ==
  LET RECURSIVE go(_, _)
      go(lo, hi) ==
        IF lo > hi THEN <<>>
        ELSE IF lo = hi THEN ss[lo]
        ELSE LET mid == (lo + hi) \div 2 IN go(lo, mid) \o go(mid + 1, hi)
  IN go(1, Len(ss))

\* the positions 1..n that pass the test, in increasing order
positions(n, Test(_)) == SelectSeq([i \in 1..n |-> i], Test)

\* number of characters of the class cls that start at position i
runLength(s, i, cls) ==
  LET RECURSIVE go(_)
      go(j) == IF j <= Len(s) /\ s[j] \in cls THEN 1 + go(j + 1) ELSE 0
  IN go(i)

\* number of characters of the class cls that end at position i
runLengthBack(s, i, cls) ==
  LET RECURSIVE go(_)
      go(j) == IF j >= 1 /\ s[j] \in cls THEN 1 + go(j - 1) ELSE 0
  IN go(i)

toUpperCase(s) == Flatten([i \in 1..Len(s) |-> upperChar(s[i])])

\* String.prototype.trim
trim(s) ==
  LET lead == runLength(s, 1, Whitespace)
  IN IF lead = Len(s) THEN <<>>
     ELSE SubSeq(s, lead + 1, Len(s) - runLengthBack(s, Len(s), Whitespace))

\* the pieces of s between separators, the k-th separator being the
\* characters from[k]..to[k]
piecesBetween(s, from, to) ==
  [k \in 1..(Len(from) + 1) |->
     SubSeq(s, IF k = 1 THEN 1 ELSE to[k - 1] + 1,
               IF k = Len(from) + 1 THEN Len(s) ELSE from[k] - 1)]

\* String.prototype.split(sep) for a one-character separator
split(s, sep) ==
  LET at == positions(Len(s), LAMBDA i : s[i] = sep)
  IN piecesBetween(s, at, at)

\* String.prototype.split(/\s+/): a run of whitespace is one separator
splitWhitespace(s) ==
  LET ws(i) == i >= 1 /\ i <= Len(s) /\ s[i] \in Whitespace
  IN piecesBetween(s, positions(Len(s), LAMBDA i : ws(i) /\ ~ws(i - 1)),
                      positions(Len(s), LAMBDA i : ws(i) /\ ~ws(i + 1)))

\* Array.prototype.filter(word => word.length > 0)
filterNonEmpty(a) == SelectSeq(a, LAMBDA word : Len(word) > 0)

\* Array.prototype.join
join(a, sep) ==
  Flatten([i \in 1..Len(a) |-> IF i = Len(a) THEN a[i] ELSE a[i] \o sep])

\* Array.prototype.slice(0, end), a negative end counting from the back
slice0(a, end) ==
  LET e == IF end < 0 THEN (IF Len(a) + end < 0 THEN 0 ELSE Len(a) + end)
           ELSE IF end > Len(a) THEN Len(a) ELSE end
  IN SubSeq(a, 1, e)

\* String.prototype.repeat
repeat(c, n) == [i \in 1..n |-> c]

\* text.split(/\s+/).filter(word => word.length > 0)
words(s) == filterNonEmpty(splitWhitespace(s))

\* String.prototype.replace(regex with the g flag, replacement): matchLen(s, i)
\* is the length of the match that starts at i (0: none); the matches taken
\* are the leftmost ones that do not overlap; rewrite(m) replaces the match m
replaceAll(s, matchLen(_, _), rewrite(_)) ==
  LET candidates == positions(Len(s), LAMBDA i : matchLen(s, i) > 0)
      RECURSIVE taken(_, _)
      taken(k, from) ==
        IF k > Len(candidates) THEN <<>>
        ELSE IF candidates[k] < from THEN taken(k + 1, from)
        ELSE <<candidates[k]>> \o taken(k + 1, candidates[k] + matchLen(s, candidates[k]))
      matches == taken(1, 1)
      endOf(k) == matches[k] + matchLen(s, matches[k]) - 1
  IN Flatten([k \in 1..(Len(matches) + 1) |->
       SubSeq(s, IF k = 1 THEN 1 ELSE endOf(k - 1) + 1,
                 IF k > Len(matches) THEN Len(s) ELSE matches[k] - 1)
       \o (IF k > Len(matches) THEN <<>>
           ELSE rewrite(SubSeq(s, matches[k], endOf(k))))])

\* s has the literal lit at position i (with the i flag when fold is TRUE)
hasAt(s, i, lit, fold) ==
  /\ i + Len(lit) - 1 <= Len(s)
  /\ \A k \in 1..Len(lit) :
       IF fold THEN foldChar(s[i + k - 1]) = foldChar(lit[k])
       ELSE s[i + k - 1] = lit[k]

\* Number to string conversion of a non-negative integer
digitsOf(n) ==
  LET RECURSIVE go(_)
      go(k) == IF k < 10 THEN <<DigitChars[k + 1]>>
               ELSE go(k \div 10) \o <<DigitChars[(k % 10) + 1]>>
  IN go(n)

\* `${n}` for a JavaScript number kept in hundredths: 150 is "1.5",
\* 100 is "1", 115 is "1.15"
numberToString(h) ==
  LET a == IF h < 0 THEN 0 - h ELSE h
      sign == IF h < 0 THEN <<"-">> ELSE <<>>
      whole == digitsOf(a \div 100)
      frac == a % 100
  IN sign \o whole \o
     (IF frac = 0 THEN <<>>
      ELSE IF frac % 10 = 0 THEN <<".">> \o digitsOf(frac \div 10)
      ELSE <<".">> \o (IF frac < 10 THEN <<"0">> ELSE <<>>) \o digitsOf(frac))

\* Number.prototype.toLocaleString() of an integer: groups of three digits
\* separated by the grouping separator of the locale
toLocaleString(n, sep) ==
  LET a == IF n < 0 THEN 0 - n ELSE n
      sign == IF n < 0 THEN <<"-">> ELSE <<>>
      d == digitsOf(a)
      RECURSIVE go(_)
      go(i) == IF i > Len(d) THEN <<>>
               ELSE (IF i > 1 /\ (Len(d) - i + 1) % 3 = 0 THEN sep ELSE <<>>)
                    \o <<d[i]>> \o go(i + 1)
  IN sign \o go(1)

----------------------------------------------------------------------------
(* Fixed data of the component.                                            *)

Vancouver == <<"V", "a", "n", "c", "o", "u", "v", "e", "r">>

APA == <<"A", "P", "A">>

Chicago == <<"C", "h", "i", "c", "a", "g", "o">>

Harvard == <<"H", "a", "r", "v", "a", "r", "d">>

MLA == <<"M", "L", "A">>

IEEE == <<"I", "E", "E", "E">>

AMA == <<"A", "M", "A">>

CSE == <<"C", "S", "E">>

ACS == <<"A", "C", "S">>

Nature == <<"N", "a", "t", "u", "r", "e">>

Science == <<"S", "c", "i", "e", "n", "c", "e">>

\* the options of the reference-style select
ReferenceStyles == <<Vancouver, APA, Chicago, Harvard, MLA, IEEE, AMA, CSE, ACS, Nature, Science>>

\* formatSections: const sections
sections ==
  << <<"A", "b", "s", "t", "r", "a", "c", "t">>,
     <<"I", "n", "t", "r", "o", "d", "u", "c", "t", "i", "o", "n">>,
     <<"M", "e", "t", "h", "o", "d", "o", "l", "o", "g", "y">>,
     <<"M", "e", "t", "h", "o", "d", "s">>,
     <<"R", "e", "s", "u", "l", "t", "s">>,
     <<"D", "i", "s", "c", "u", "s", "s", "i", "o", "n">>,
     <<"C", "o", "n", "c", "l", "u", "s", "i", "o", "n">>,
     <<"R", "e", "f", "e", "r", "e", "n", "c", "e", "s">> >>

\* formatTitles: const sectionTitles
sectionTitles ==
  << <<"A", "B", "S", "T", "R", "A", "C", "T">>,
     <<"I", "N", "T", "R", "O", "D", "U", "C", "T", "I", "O", "N">>,
     <<"M", "E", "T", "H", "O", "D", "O", "L", "O", "G", "Y">>,
     <<"M", "E", "T", "H", "O", "D", "S">>,
     <<"R", "E", "S", "U", "L", "T", "S">>,
     <<"D", "I", "S", "C", "U", "S", "S", "I", "O", "N">>,
     <<"C", "O", "N", "C", "L", "U", "S", "I", "O", "N">>,
     <<"R", "E", "F", "E", "R", "E", "N", "C", "E", "S">> >>

DEFAULT_JOURNAL_FORMATS ==
  <<
  [ id |-> <<"i", "j", "d", "r">>,
    name |-> <<"I", "n", "t", "e", "r", "n", "a", "t", "i", "o", "n", "a", "l", " ", "J", "o", "u", "r", "n", "a", "l", " ", "o", "f", " ", "D", "e", "n", "t", "a", "l", " ", "R", "e", "s", "e", "a", "r", "c", "h", " ", "(", "I", "J", "D", "R", ")">>,
    description |-> <<"D", "e", "n", "t", "a", "l", " ", "r", "e", "s", "e", "a", "r", "c", "h", " ", "a", "n", "d", " ", "c", "l", "i", "n", "i", "c", "a", "l", " ", "s", "t", "u", "d", "i", "e", "s">>,
    lineSpacing |-> 150, wordLimit |-> 5000,
    referenceStyle |-> Vancouver,
    fontFamily |-> <<"T", "i", "m", "e", "s", " ", "N", "e", "w", " ", "R", "o", "m", "a", "n">>,
    fontSize |-> 12,
    margins |-> [top |-> 100, bottom |-> 100, left |-> 100, right |-> 100] ],
  [ id |-> <<"j", "c", "d">>,
    name |-> <<"J", "o", "u", "r", "n", "a", "l", " ", "o", "f", " ", "C", "l", "i", "n", "i", "c", "a", "l", " ", "D", "e", "n", "t", "i", "s", "t", "r", "y", " ", "(", "J", "C", "D", ")">>,
    description |-> <<"C", "l", "i", "n", "i", "c", "a", "l", " ", "d", "e", "n", "t", "a", "l", " ", "p", "r", "a", "c", "t", "i", "c", "e", " ", "a", "n", "d", " ", "r", "e", "s", "e", "a", "r", "c", "h">>,
    lineSpacing |-> 200, wordLimit |-> 4000,
    referenceStyle |-> APA,
    fontFamily |-> <<"A", "r", "i", "a", "l">>,
    fontSize |-> 11,
    margins |-> [top |-> 125, bottom |-> 125, left |-> 125, right |-> 125] ],
  [ id |-> <<"j", "o", "e">>,
    name |-> <<"J", "o", "u", "r", "n", "a", "l", " ", "o", "f", " ", "E", "n", "d", "o", "d", "o", "n", "t", "i", "c", "s", " ", "(", "J", "O", "E", ")">>,
    description |-> <<"E", "n", "d", "o", "d", "o", "n", "t", "i", "c", " ", "r", "e", "s", "e", "a", "r", "c", "h", " ", "a", "n", "d", " ", "c", "l", "i", "n", "i", "c", "a", "l", " ", "p", "r", "a", "c", "t", "i", "c", "e">>,
    lineSpacing |-> 150, wordLimit |-> 6000,
    referenceStyle |-> Chicago,
    fontFamily |-> <<"G", "a", "r", "a", "m", "o", "n", "d">>,
    fontSize |-> 12,
    margins |-> [top |-> 100, bottom |-> 100, left |-> 150, right |-> 100] ],
  [ id |-> <<"c", "u", "s", "t", "o", "m", "_", "m", "o", "d", "e", "r", "n">>,
    name |-> <<"M", "o", "d", "e", "r", "n", " ", "R", "e", "s", "e", "a", "r", "c", "h", " ", "J", "o", "u", "r", "n", "a", "l">>,
    description |-> <<"C", "o", "n", "t", "e", "m", "p", "o", "r", "a", "r", "y", " ", "a", "c", "a", "d", "e", "m", "i", "c", " ", "p", "u", "b", "l", "i", "s", "h", "i", "n", "g">>,
    lineSpacing |-> 115, wordLimit |-> 8000,
    referenceStyle |-> Harvard,
    fontFamily |-> <<"H", "e", "l", "v", "e", "t", "i", "c", "a">>,
    fontSize |-> 11,
    margins |-> [top |-> 100, bottom |-> 100, left |-> 100, right |-> 100] ],
  [ id |-> <<"c", "u", "s", "t", "o", "m", "_", "c", "l", "a", "s", "s", "i", "c">>,
    name |-> <<"C", "l", "a", "s", "s", "i", "c", "a", "l", " ", "A", "c", "a", "d", "e", "m", "i", "c", " ", "J", "o", "u", "r", "n", "a", "l">>,
    description |-> <<"T", "r", "a", "d", "i", "t", "i", "o", "n", "a", "l", " ", "s", "c", "h", "o", "l", "a", "r", "l", "y", " ", "p", "u", "b", "l", "i", "c", "a", "t", "i", "o", "n">>,
    lineSpacing |-> 200, wordLimit |-> 3000,
    referenceStyle |-> MLA,
    fontFamily |-> <<"G", "a", "r", "a", "m", "o", "n", "d">>,
    fontSize |-> 12,
    margins |-> [top |-> 150, bottom |-> 150, left |-> 150, right |-> 150] ]
  >>

\* the draft of a custom format: useState initial value and resetCustomFormat
InitialCustomFormat ==
  [ name |-> <<>>,
    description |-> <<>>,
    lineSpacing |-> 150, wordLimit |-> 5000,
    referenceStyle |-> Vancouver,
    fontFamily |-> <<"T", "i", "m", "e", "s", " ", "N", "e", "w", " ", "R", "o", "m", "a", "n">>,
    fontSize |-> 12,
    margins |-> [top |-> 100, bottom |-> 100, left |-> 100, right |-> 100] ]

EmptyInputMessage == "Please enter your manuscript text"

MissingNameMessage == "Please enter a journal name"

OriginalFileName == <<"m", "a", "n", "u", "s", "c", "r", "i", "p", "t", ".", "t", "x", "t">>

\* grouping separator Number.prototype.toLocaleString() uses in a locale
groupSeparator(loc) == IF loc = "de-DE" THEN <<".">> ELSE <<",">>

----------------------------------------------------------------------------
(* State of the component.                                                 *)

VARIABLES
  manuscriptText,     \* useState<string>('')
  journalFormats,     \* useState(DEFAULT_JOURNAL_FORMATS)
  selectedFormat,     \* useState(DEFAULT_JOURNAL_FORMATS[0])
  formattedDocument,  \* useState<FormattedDocument | null>(null)
  isProcessing,       \* useState(false)
  error,              \* useState<string | null>(null)
  showCustomFormat,   \* useState(false)
  customFormat,       \* useState<Partial<JournalFormat>>({...})
  localStorage,       \* the value stored under the key 'customFormats'
  now,                \* the last reading of Date.now()
  locale,             \* the default locale of the JavaScript runtime
  pc,                 \* "constructed" until the mount effect has run
  run,                \* null unless the last handler was formatDocument: the stages it ran
  file,               \* the File handed to extractTextFromFile (utils/docxParser.ts)
  extraction          \* the promise extractTextFromFile returned for it

vars == <<manuscriptText, journalFormats, selectedFormat, formattedDocument,
          isProcessing, error, showCustomFormat, customFormat, localStorage,
          now, locale, pc, run, file, extraction>>

\* no file was handed to the extractor: the component does not call it
NoFile == [type |-> <<>>, bytes |-> <<>>]

\* the extractor was not called
NotCalled == [state |-> "not called", value |-> <<>>]

----------------------------------------------------------------------------
(* The formatting pipeline.                                                *)

\* a variant of emptyInput that leaves out the trim
emptyInput_untrimmed(text) == text = <<>>

\* formatDocument: !manuscriptText.trim()
emptyInput(text) == trim(text) = <<>>

\* a variant of applyWordLimit that keeps one word more than the limit
applyWordLimit_oneMore(text, wordLimit) ==
  LET formattedText == trim(text)
      ws == words(formattedText)
  IN IF Len(ws) > wordLimit THEN join(slice0(ws, wordLimit + 1), <<" ">>)
     ELSE formattedText

\* a variant of applyWordLimit that joins the words of every text by spaces
applyWordLimit_alwaysJoined(text, wordLimit) ==
  LET ws == words(trim(text))
  IN IF Len(ws) > wordLimit THEN join(slice0(ws, wordLimit), <<" ">>)
     ELSE join(ws, <<" ">>)

\* a variant of applyWordLimit that never shortens the text
applyWordLimit_unlimited(text, wordLimit) == trim(text)

\* formatDocument, "Apply word limit": the text handed to applyJournalFormatting
applyWordLimit(text, wordLimit) ==
  LET formattedText == trim(text)
      ws == words(formattedText)
  IN IF Len(ws) > wordLimit THEN join(slice0(ws, wordLimit), <<" ">>)
     ELSE formattedText

\* a variant of titleMatch for one newline before the title
titleMatch_oneNewline(title, s, i) ==
  IF hasAt(s, i, <<"\n">> \o title \o <<"\n">>, TRUE) THEN Len(title) + 2 ELSE 0

\* a variant of titleMatch without the i flag
titleMatch_caseSensitive(title, s, i) ==
  IF hasAt(s, i, <<"\n", "\n">> \o title \o <<"\n">>, FALSE) THEN Len(title) + 3 ELSE 0

\* /\n\n<title>\n/gi at position i
titleMatch(title, s, i) ==
  IF hasAt(s, i, <<"\n", "\n">> \o title \o <<"\n">>, TRUE) THEN Len(title) + 3 ELSE 0

formatTitles(text, format) ==
  LET \* "Format main title": the rewritten array of lines is not joined back
      \* into formattedText, which the function returns
      lines == split(text, "\n")
      titled == IF Len(lines) > 0 /\ trim(lines[1]) # <<>>
                THEN [lines EXCEPT ![1] = <<"T", "I", "T", "L", "E", ":", " ">> \o toUpperCase(lines[1])]
                ELSE lines
      RECURSIVE each(_, _)
      each(formattedText, k) ==
        IF k > Len(sectionTitles) THEN formattedText
        ELSE LET title == sectionTitles[k]
                 replacement == <<"\n", "\n">> \o title \o <<"\n">>
                                \o repeat("=", Len(title)) \o <<"\n">>
             IN each(replaceAll(formattedText, LAMBDA s, i : titleMatch(title, s, i),
                                LAMBDA m : replacement), k + 1)
  IN each(text, 1)

\* a variant of numeralMatch for \d in place of \d+
numeralMatch_oneDigit(open, close, s, i) ==
  IF s[i] = open /\ i + 2 <= Len(s) /\ s[i + 1] \in DigitSet /\ s[i + 2] = close
  THEN 3 ELSE 0

\* /\[(\d+)\]/g and /\((\d+)\)/g at position i
numeralMatch(open, close, s, i) ==
  IF s[i] = open
  THEN LET d == runLength(s, i + 1, DigitSet)
       IN IF d > 0 /\ i + d + 1 <= Len(s) /\ s[i + d + 1] = close THEN d + 2 ELSE 0
  ELSE 0

\* the capture group $1 of a numeral match
group1(m) == SubSeq(m, 2, Len(m) - 1)

\* the two replacements one branch of formatReferences makes, in order
replaceNumerals(text, forBracket(_), forParen(_)) ==
  replaceAll(replaceAll(text, LAMBDA s, i : numeralMatch("[", "]", s, i), forBracket),
             LAMBDA s, i : numeralMatch("(", ")", s, i), forParen)

formatReferences(text, referenceStyle) ==
  IF referenceStyle = Vancouver THEN
    replaceNumerals(text, LAMBDA m : <<"(">> \o group1(m) \o <<")">>,
                          LAMBDA m : <<"(">> \o group1(m) \o <<")">>)
  ELSE IF referenceStyle = APA THEN
    replaceNumerals(text, LAMBDA m : <<"[", "A", "u", "t", "h", "o", "r", ",", " ", "Y", "e", "a", "r", "]">>,
                          LAMBDA m : <<"(", "A", "u", "t", "h", "o", "r", ",", " ", "Y", "e", "a", "r", ")">>)
  ELSE IF referenceStyle = Chicago THEN
    replaceNumerals(text, LAMBDA m : <<"[", "A", "u", "t", "h", "o", "r", " ", "Y", "e", "a", "r", "]">>,
                          LAMBDA m : <<"(", "A", "u", "t", "h", "o", "r", " ", "Y", "e", "a", "r", ")">>)
  ELSE IF referenceStyle = Harvard THEN
    replaceNumerals(text, LAMBDA m : <<"[", "A", "u", "t", "h", "o", "r", ",", " ", "Y", "e", "a", "r", "]">>,
                          LAMBDA m : <<"(", "A", "u", "t", "h", "o", "r", ",", " ", "Y", "e", "a", "r", ")">>)
  ELSE IF referenceStyle = MLA THEN
    replaceNumerals(text, LAMBDA m : <<"[", "A", "u", "t", "h", "o", "r", " ", "P", "a", "g", "e", "]">>,
                          LAMBDA m : <<"(", "A", "u", "t", "h", "o", "r", " ", "P", "a", "g", "e", ")">>)
  ELSE IF referenceStyle = IEEE THEN
    replaceNumerals(text, LAMBDA m : <<"[">> \o group1(m) \o <<"]">>,
                          LAMBDA m : <<"[">> \o group1(m) \o <<"]">>)
  ELSE IF referenceStyle \in {AMA, CSE, ACS, Nature, Science} THEN
    replaceNumerals(text, LAMBDA m : <<"^">> \o group1(m) \o <<"^">>,
                          LAMBDA m : <<"^">> \o group1(m) \o <<"^">>)
  ELSE text

\* a variant of sectionMatch without the word boundaries
sectionMatch_anywhere(section, s, i) ==
  IF hasAt(s, i, section, TRUE) THEN Len(section) ELSE 0

\* new RegExp(`\\b${section}\\b`, 'gi') at position i
sectionMatch(section, s, i) ==
  IF /\ (i = 1 \/ s[i - 1] \notin WordChars)
     /\ hasAt(s, i, section, TRUE)
     /\ (i + Len(section) > Len(s) \/ s[i + Len(section)] \notin WordChars)
  THEN Len(section) ELSE 0

\* /\n{min,}/g at position i
newlineRun(min, s, i) ==
  LET n == runLength(s, i, {"\n"}) IN IF n >= min THEN n ELSE 0

\* formatSections: "Add proper spacing between sections"
sectionSpacing(text) ==
  replaceAll(text, LAMBDA s, i : newlineRun(3, s, i), LAMBDA m : <<"\n", "\n">>)

\* a variant of paragraphSpacing that replaces each pair of newlines by one
paragraphSpacing_pairwise(text) ==
  replaceAll(text, LAMBDA s, i : IF hasAt(s, i, <<"\n", "\n">>, FALSE) THEN 2 ELSE 0,
             LAMBDA m : <<"\n">>)

\* formatParagraphs: "Ensure proper paragraph spacing"
paragraphSpacing(text) ==
  replaceAll(text, LAMBDA s, i : newlineRun(2, s, i), LAMBDA m : <<"\n", "\n">>)

formatSections(text, format) ==
  LET RECURSIVE each(_, _)
      each(formattedText, k) ==
        IF k > Len(sections) THEN formattedText
        ELSE LET section == sections[k]
                 replacement == <<"\n", "\n">> \o toUpperCase(section) \o <<"\n">>
             IN each(replaceAll(formattedText, LAMBDA s, i : sectionMatch(section, s, i),
                                LAMBDA m : replacement), k + 1)
  IN sectionSpacing(each(text, 1))

\* line.trim().match(/^[A-Z\s]+$/)
isUpperCaseLine(line) ==
  LET t == trim(line)
  IN Len(t) > 0 /\ \A i \in 1..Len(t) : t[i] \in UpperSet \cup Whitespace

\* a variant of formatParagraphs that indents the first line as well
formatParagraphs_everyLine(text, format) ==
  LET formattedText == paragraphSpacing(text)
      lines == split(formattedText, "\n")
      formattedLines ==
        [index \in 1..Len(lines) |->
           IF trim(lines[index]) # <<>> /\ ~isUpperCaseLine(lines[index])
           THEN <<" ", " ", " ", " ">> \o lines[index]
           ELSE lines[index]]
  IN join(formattedLines, <<"\n">>)

formatParagraphs(text, format) ==
  LET formattedText == paragraphSpacing(text)
      lines == split(formattedText, "\n")
      formattedLines ==
        [index \in 1..Len(lines) |->
           IF trim(lines[index]) # <<>> /\ ~isUpperCaseLine(lines[index]) /\ index > 1
           THEN <<" ", " ", " ", " ">> \o lines[index]
           ELSE lines[index]]
  IN join(formattedLines, <<"\n">>)

\* applyJournalSpecificFormatting: const header
header(format) ==
  <<"F", "O", "R", "M", "A", "T", "T", "E", "D", " ", "F", "O", "R", ":", " ">>
  \o toUpperCase(format.name) \o <<"\n">>

\* a variant of headerLine that counts the characters of the name
headerLine_ofName(format) == repeat("=", Len(format.name) + 15) \o <<"\n", "\n">>

\* applyJournalSpecificFormatting: const headerLine
headerLine(format) == repeat("=", Len(header(format)) - 1) \o <<"\n", "\n">>

\* applyJournalSpecificFormatting: const specs
specs(format) ==
  <<"F", "O", "R", "M", "A", "T", "T", "I", "N", "G", " ", "S", "P", "E", "C", "I", "F", "I", "C", "A", "T", "I", "O", "N", "S", ":", "\n">>
  \o <<"-", " ", "W", "o", "r", "d", " ", "L", "i", "m", "i", "t", ":", " ">>
  \o toLocaleString(format.wordLimit, groupSeparator(locale))
  \o <<" ", "w", "o", "r", "d", "s", "\n">>
  \o <<"-", " ", "L", "i", "n", "e", " ", "S", "p", "a", "c", "i", "n", "g", ":", " ">>
  \o numberToString(format.lineSpacing) \o <<"\n">>
  \o <<"-", " ", "R", "e", "f", "e", "r", "e", "n", "c", "e", " ", "S", "t", "y", "l", "e", ":", " ">>
  \o format.referenceStyle \o <<"\n">>
  \o <<"-", " ", "F", "o", "n", "t", ":", " ">>
  \o format.fontFamily \o <<" ">> \o digitsOf(format.fontSize) \o <<"p", "t", "\n">>
  \o <<"-", " ", "M", "a", "r", "g", "i", "n", "s", ":", " ">>
  \o numberToString(format.margins.top) \o <<"\"", " ", "t", "o", "p", ",", " ">>
  \o numberToString(format.margins.bottom) \o <<"\"", " ", "b", "o", "t", "t", "o", "m", ",", " ">>
  \o numberToString(format.margins.left) \o <<"\"", " ", "l", "e", "f", "t", ",", " ">>
  \o numberToString(format.margins.right) \o <<"\"", " ", "r", "i", "g", "h", "t", "\n", "\n">>

\* a variant of applyJournalSpecificFormatting that puts the block after
\* the text
applyJournalSpecificFormatting_appended(text, format) ==
  text \o <<"\n", "\n">> \o header(format) \o headerLine(format) \o specs(format)

applyJournalSpecificFormatting(text, format) ==
  header(format) \o headerLine(format) \o specs(format) \o text

\* the message of the TypeError that the read of format.margins.top raises
\* when the format has no margins
MarginsTypeError == "Cannot read properties of undefined (reading 'top')"

\* the error applyJournalSpecificFormatting throws for the format, if any
typeError(format) ==
  IF "margins" \in DOMAIN format THEN <<>> ELSE <<MarginsTypeError>>

\* the value a stage assigns to formattedText, the input of the next stage
lastOut(st) == st[Len(st)].out

\* formattedText = formatReferences(formattedText, format.referenceStyle)
withReferences(st, format) ==
  Append(st, [ stage |-> "formatReferences",
               out |-> formatReferences(lastOut(st), format.referenceStyle) ])

\* formattedText = formatSections(formattedText, format)
withSections(st, format) ==
  Append(st, [ stage |-> "formatSections",
               out |-> formatSections(lastOut(st), format) ])

\* formattedText = formatParagraphs(formattedText, format)
withParagraphs(st, format) ==
  Append(st, [ stage |-> "formatParagraphs",
               out |-> formatParagraphs(lastOut(st), format) ])

\* formattedText = applyJournalSpecificFormatting(formattedText, format)
withJournalSpecificFormatting(st, format) ==
  Append(st, [ stage |-> "applyJournalSpecificFormatting",
               out |-> applyJournalSpecificFormatting(lastOut(st), format) ])

\* a variant of stagesBefore that formats the sections before the references
stagesBefore_sectionsFirst(text, format) ==
  withParagraphs(
    withReferences(
      withSections(
        << [stage |-> "formatTitles", out |-> formatTitles(text, format)] >>,
        format),
      format),
    format)

\* applyJournalFormatting up to the call of applyJournalSpecificFormatting:
\* the stages in the order they are called, each with the value it assigns
\* to formattedText
stagesBefore(text, format) ==
  withParagraphs(
    withSections(
      withReferences(
        << [stage |-> "formatTitles", out |-> formatTitles(text, format)] >>,
        format),
      format),
    format)

\* applyJournalFormatting of a format it does not throw for
stagesOf(text, format) ==
  withJournalSpecificFormatting(stagesBefore(text, format), format)

applyJournalFormatting(text, format) ==
  lastOut(stagesOf(text, format))

----------------------------------------------------------------------------
(* Handlers of the component.                                              *)

Null == <<>>

Some(v) == <<v>>

\* a || b of JavaScript for a number and for a string
orNumber(v, d) == IF v = 0 THEN d ELSE v

orString(v, d) == IF v = <<>> THEN d ELSE v

\* saveCustomFormat: const newFormat
newFormat(draft, t) ==
  [ id |-> <<"c", "u", "s", "t", "o", "m", "_">> \o digitsOf(t),
    name |-> draft.name,
    description |-> orString(draft.description, <<>>),
    lineSpacing |-> orNumber(draft.lineSpacing, 150),
    wordLimit |-> orNumber(draft.wordLimit, 5000),
    referenceStyle |-> orString(draft.referenceStyle, Vancouver),
    fontFamily |-> orString(draft.fontFamily,
                            <<"T", "i", "m", "e", "s", " ", "N", "e", "w", " ", "R", "o", "m", "a", "n">>),
    fontSize |-> orNumber(draft.fontSize, 12),
    margins |-> draft.margins ]

\* the JSON text of an array, as the value JSON.parse reads from it
array(items) == [json |-> "array", items |-> items]

\* JSON texts that are no array: an object such as '{}', the text 'null',
\* and a text JSON.parse rejects with a SyntaxError
objectText == [json |-> "object", items |-> <<>>]

nullText == [json |-> "null", items |-> <<>>]

unparseableText == [json |-> "unparseable", items |-> <<>>]

\* JSON.parse(localStorage.getItem('customFormats') || '[]')
savedFormats == IF localStorage = Null THEN array(<<>>) ELSE localStorage[1]

\* the useEffect callback throws: JSON.parse a SyntaxError, or the read of
\* savedFormats.length a TypeError when savedFormats is null
mountThrows == savedFormats.json \in {"unparseable", "null"}

\* a variant of mount that does not read the stored formats
mount_withoutLoad ==
  /\ pc = "constructed"
  /\ pc' = "mounted"
  /\ run' = Null
  /\ UNCHANGED <<file, extraction, manuscriptText, journalFormats, selectedFormat,
                 formattedDocument, isProcessing, error, showCustomFormat,
                 customFormat, localStorage, now, locale>>

\* a variant of mount that puts the stored formats first
mount_storedFirst ==
  /\ pc = "constructed"
  /\ IF mountThrows
     THEN \* the error is not caught: the component is taken off the page
          /\ pc' = "crashed"
          /\ UNCHANGED journalFormats
     ELSE /\ pc' = "mounted"
          /\ journalFormats' = IF Len(savedFormats.items) > 0
                               THEN savedFormats.items \o DEFAULT_JOURNAL_FORMATS
                               ELSE journalFormats
  /\ run' = Null
  /\ UNCHANGED <<file, extraction, manuscriptText, selectedFormat, formattedDocument, isProcessing,
                 error, showCustomFormat, customFormat, localStorage, now, locale>>

\* the effect that runs once after the first render
mount ==
  /\ pc = "constructed"
  /\ IF mountThrows
     THEN \* the error is not caught: the component is taken off the page
          /\ pc' = "crashed"
          /\ UNCHANGED journalFormats
     ELSE /\ pc' = "mounted"
          /\ journalFormats' = IF Len(savedFormats.items) > 0
                               THEN DEFAULT_JOURNAL_FORMATS \o savedFormats.items
                               ELSE journalFormats
  /\ run' = Null
  /\ UNCHANGED <<file, extraction, manuscriptText, selectedFormat, formattedDocument, isProcessing,
                 error, showCustomFormat, customFormat, localStorage, now, locale>>

\* a variant of onChangeManuscriptText that keeps the result
onChangeManuscriptText_keepingResult(value) ==
  /\ pc = "mounted"
  /\ manuscriptText' = value
  /\ error' = Null
  /\ run' = Null
  /\ UNCHANGED <<file, extraction, formattedDocument, journalFormats, selectedFormat, isProcessing, showCustomFormat,
                 customFormat, localStorage, now, locale, pc>>

\* the onChange handler of the manuscript textarea
onChangeManuscriptText(value) ==
  /\ pc = "mounted"
  /\ manuscriptText' = value
  /\ formattedDocument' = Null
  /\ error' = Null
  /\ run' = Null
  /\ UNCHANGED <<file, extraction, journalFormats, selectedFormat, isProcessing, showCustomFormat,
                 customFormat, localStorage, now, locale, pc>>

\* a variant of onChangeJournalFormat that clears the result
onChangeJournalFormat_clearingResult(format) ==
  /\ pc = "mounted"
  /\ selectedFormat' = format
  /\ formattedDocument' = Null
  /\ run' = Null
  /\ UNCHANGED <<file, extraction, manuscriptText, journalFormats, isProcessing,
                 error, showCustomFormat, customFormat, localStorage, now, locale, pc>>

\* the onChange handler of the journalFormat radio buttons
onChangeJournalFormat(format) ==
  /\ pc = "mounted"
  /\ selectedFormat' = format
  /\ run' = Null
  /\ UNCHANGED <<file, extraction, manuscriptText, journalFormats, formattedDocument, isProcessing,
                 error, showCustomFormat, customFormat, localStorage, now, locale, pc>>

\* the button that opens and closes the custom-format form
toggleCustomFormat ==
  /\ pc = "mounted"
  /\ showCustomFormat' = ~showCustomFormat
  /\ run' = Null
  /\ UNCHANGED <<file, extraction, manuscriptText, journalFormats, selectedFormat, formattedDocument,
                 isProcessing, error, customFormat, localStorage, now, locale, pc>>

\* an onChange handler of the custom-format form: setCustomFormat({...customFormat, ...})
setCustomFormat(draft) ==
  /\ pc = "mounted"
  /\ showCustomFormat
  /\ customFormat' = draft
  /\ run' = Null
  /\ UNCHANGED <<file, extraction, manuscriptText, journalFormats, selectedFormat, formattedDocument,
                 isProcessing, error, showCustomFormat, localStorage, now, locale, pc>>

onChangeName(value) == setCustomFormat([customFormat EXCEPT !.name = value])

\* parseInt(e.target.value) || 5000, the typed value given as its integer
\* (0 also stands for input parseInt reads as NaN)
onChangeWordLimit(value) ==
  setCustomFormat([customFormat EXCEPT !.wordLimit = orNumber(value, 5000)])

onChangeReferenceStyle(value) ==
  setCustomFormat([customFormat EXCEPT !.referenceStyle = value])

resetCustomFormat ==
  /\ pc = "mounted"
  /\ showCustomFormat
  /\ customFormat' = InitialCustomFormat
  /\ run' = Null
  /\ UNCHANGED <<file, extraction, manuscriptText, journalFormats, selectedFormat, formattedDocument,
                 isProcessing, error, showCustomFormat, localStorage, now, locale, pc>>

\* the try block of formatDocument: the word limit, then the stages of
\* applyJournalFormatting that return
\* formattedText = words.slice(0, wordLimit).join(' ') when over the limit
truncatedStage(text, format) ==
  [stage |-> "applyWordLimit", out |-> applyWordLimit(text, format.wordLimit)]

\* the stages of applyJournalFormatting that return, after the word limit
stagesAfter(first, format) ==
  IF typeError(format) # Null
  THEN <<first>> \o stagesBefore(first.out, format)
  ELSE <<first>> \o stagesOf(first.out, format)

formatDocumentStages(text, format) ==
  stagesAfter(truncatedStage(text, format), format)

\* a variant of formatDocument that reports originalWordCount as the word
\* count of the result
formatDocument_originalWordCount ==
  /\ pc = "mounted"
  /\ IF emptyInput(manuscriptText)
     THEN /\ error' = Some(EmptyInputMessage)
          /\ run' = Some(<<>>)
          /\ UNCHANGED <<formattedDocument, isProcessing>>
     ELSE IF typeError(selectedFormat) # Null
     THEN \* catch (err): setError(err.message); finally: setIsProcessing(false)
          /\ error' = typeError(selectedFormat)
          /\ isProcessing' = FALSE
          /\ run' = Some(formatDocumentStages(manuscriptText, selectedFormat))
          /\ UNCHANGED formattedDocument
     ELSE \E st \in {formatDocumentStages(manuscriptText, selectedFormat)} :
            \E formattedText \in {st[Len(st)].out} :
              /\ error' = Null
              /\ formattedDocument' =
                   Some([ content |-> formattedText,
                          wordCount |-> Len(words(trim(manuscriptText))),
                          format |-> selectedFormat,
                          originalFileName |-> OriginalFileName ])
              /\ isProcessing' = FALSE
              /\ run' = Some(st)
  /\ UNCHANGED <<file, extraction, manuscriptText, journalFormats, selectedFormat, showCustomFormat,
                 customFormat, localStorage, now, locale, pc>>

formatDocument ==
  /\ pc = "mounted"
  /\ IF emptyInput(manuscriptText)
     THEN /\ error' = Some(EmptyInputMessage)
          /\ run' = Some(<<>>)
          /\ UNCHANGED <<formattedDocument, isProcessing>>
     ELSE IF typeError(selectedFormat) # Null
     THEN \* catch (err): setError(err.message); finally: setIsProcessing(false)
          /\ error' = typeError(selectedFormat)
          /\ isProcessing' = FALSE
          /\ run' = Some(formatDocumentStages(manuscriptText, selectedFormat))
          /\ UNCHANGED formattedDocument
     ELSE \E st \in {formatDocumentStages(manuscriptText, selectedFormat)} :
            \E formattedText \in {st[Len(st)].out} :
              /\ error' = Null
              /\ formattedDocument' =
                   Some([ content |-> formattedText,
                          wordCount |-> Len(words(formattedText)),
                          format |-> selectedFormat,
                          originalFileName |-> OriginalFileName ])
              /\ isProcessing' = FALSE
              /\ run' = Some(st)
  /\ UNCHANGED <<file, extraction, manuscriptText, journalFormats, selectedFormat, showCustomFormat,
                 customFormat, localStorage, now, locale, pc>>

\* most custom formats one session registers
MaxCustomFormats == 1

\* latest reading of the clock
MaxNow == 0

\* a variant of saveCustomFormat that stores the new format alone
saveCustomFormat_overwriting(t) ==
  /\ pc = "mounted"
  /\ showCustomFormat
  /\ run' = Null
  /\ IF customFormat.name = <<>>
     THEN /\ error' = Some(MissingNameMessage)
          /\ UNCHANGED <<journalFormats, selectedFormat, showCustomFormat, localStorage, now>>
     ELSE LET format == newFormat(customFormat, t)
          IN /\ now' = t
             /\ journalFormats' = Append(journalFormats, format)
             /\ selectedFormat' = format
             /\ showCustomFormat' = FALSE
             /\ error' = Null
             /\ IF savedFormats.json = "array"
                THEN localStorage' = Some(array(<<format>>))
                ELSE \* savedFormats.push is not a function: nothing is stored
                     UNCHANGED localStorage
  /\ UNCHANGED <<file, extraction, manuscriptText, formattedDocument, isProcessing, customFormat,
                 locale, pc>>

\* saveCustomFormat when Date.now() reads t
saveCustomFormat(t) ==
  /\ pc = "mounted"
  /\ showCustomFormat
  /\ run' = Null
  /\ IF customFormat.name = <<>>
     THEN /\ error' = Some(MissingNameMessage)
          /\ UNCHANGED <<journalFormats, selectedFormat, showCustomFormat, localStorage, now>>
     ELSE LET format == newFormat(customFormat, t)
          IN /\ now' = t
             /\ journalFormats' = Append(journalFormats, format)
             /\ selectedFormat' = format
             /\ showCustomFormat' = FALSE
             /\ error' = Null
             /\ IF savedFormats.json = "array"
                THEN localStorage' = Some(array(Append(savedFormats.items, format)))
                ELSE \* savedFormats.push is not a function: nothing is stored
                     UNCHANGED localStorage
  /\ UNCHANGED <<file, extraction, manuscriptText, formattedDocument, isProcessing, customFormat,
                 locale, pc>>

----------------------------------------------------------------------------
(* Inputs.                                                                 *)

\* the concatenations of at most n of the fragments
RECURSIVE TextsOf(_, _)
TextsOf(fragments, n) ==
  IF n = 0 THEN {<<>>}
  ELSE LET shorter == TextsOf(fragments, n - 1)
       IN shorter \cup {s \o f : s \in shorter, f \in fragments}

Locales == {"en-US", "de-DE"}

\* manuscripts typed into the textarea of the host
HostTexts ==
  { <<>>,
    <<" ", "\n">>,
    <<"T", "\n", "\n", "R", "e", "s", "u", "l", "t", "s", "\n", "s", "e", "e", " ", "[", "1", "]">> }

NameInputs == {<<>>, <<"J">>}

WordLimitInputs == {0, 2}

StyleInputs == {IEEE}

\* what an earlier session left under the key 'customFormats'
EarlierStorage ==
  { Null,
    Some(array(<<newFormat([InitialCustomFormat EXCEPT !.name = <<"O", "l", "d">>], 0)>>)) }

----------------------------------------------------------------------------
(* The component from its construction on.                                 *)

Init ==
  /\ manuscriptText = <<>>
  /\ journalFormats = DEFAULT_JOURNAL_FORMATS
  /\ selectedFormat = DEFAULT_JOURNAL_FORMATS[1]
  /\ formattedDocument = Null
  /\ isProcessing = FALSE
  /\ error = Null
  /\ showCustomFormat = FALSE
  /\ customFormat = InitialCustomFormat
  /\ localStorage \in EarlierStorage
  /\ now = 0
  /\ locale \in Locales
  /\ pc = "constructed"
  /\ run = Null
  /\ file = NoFile
  /\ extraction = NotCalled

Next ==
  \/ mount
  \/ \E value \in HostTexts : onChangeManuscriptText(value)
  \/ \E i \in 1..Len(journalFormats) : onChangeJournalFormat(journalFormats[i])
  \/ toggleCustomFormat
  \/ \E value \in NameInputs : onChangeName(value)
  \/ \E value \in WordLimitInputs : onChangeWordLimit(value)
  \/ \E value \in StyleInputs : onChangeReferenceStyle(value)
  \/ resetCustomFormat
  \/ /\ customFormat.name = <<>> \/ Len(journalFormats) < Len(DEFAULT_JOURNAL_FORMATS) + MaxCustomFormats
     /\ \E t \in now..MaxNow : saveCustomFormat(t)
  \/ formatDocument

Spec == Init /\ [][Next]_vars

----------------------------------------------------------------------------
(* The pipeline on families of inputs.  Each family starts in the state    *)
(* the component is in after the user registered one custom format and     *)
(* typed a manuscript; the only step is the formatting request.            *)

\* the draft the form holds after the name, the word limit and the
\* reference style were entered
draftOf(name, wordLimit, referenceStyle) ==
  [InitialCustomFormat EXCEPT !.name = name, !.wordLimit = wordLimit,
                              !.referenceStyle = referenceStyle]

\* the state after mount, opening the form, filling it with the draft,
\* saveCustomFormat at clock reading 0 and typing the text
afterRegistration(text, draft, loc) ==
  LET format == newFormat(draft, 0)
  IN /\ manuscriptText = text
     /\ journalFormats = Append(DEFAULT_JOURNAL_FORMATS, format)
     /\ selectedFormat = format
     /\ formattedDocument = Null
     /\ isProcessing = FALSE
     /\ error = Null
     /\ showCustomFormat = FALSE
     /\ customFormat = draft
     /\ localStorage = Some(array(<<format>>))
     /\ now = 0
     /\ locale = loc
     /\ pc = "mounted"
     /\ run = Null
     /\ file = NoFile
     /\ extraction = NotCalled

JournalName == <<"J">>

\* largest small word limit a family registers
MaxWordLimit == 2

\* number of fragments of the truncation manuscripts
MaxTruncationFragments == 5

TruncationFragments == {<<"a">>, <<"b">>, <<" ">>, <<"\n">>}

InitTruncation ==
  \E text \in TextsOf(TruncationFragments, MaxTruncationFragments) :
    \E wordLimit \in 1..MaxWordLimit :
      afterRegistration(text, draftOf(JournalName, wordLimit, Vancouver), "en-US")

SpecTruncation == InitTruncation /\ [][formatDocument]_vars

\* number of fragments of the word-limit manuscripts
MaxLimitFragments == 4

LimitFragments == {<<"a">>, <<" ">>, <<"[", "1", "]">>, <<"r", "e", "s", "u", "l", "t", "s">>}

InitLimit ==
  \E text \in TextsOf(LimitFragments, MaxLimitFragments) :
    \E wordLimit \in 1..MaxWordLimit :
      \E style \in {Vancouver, APA, MLA, IEEE, Nature} :
        afterRegistration(text, draftOf(JournalName, wordLimit, style), "en-US")

SpecLimit == InitLimit /\ [][formatDocument]_vars

\* number of fragments of the title manuscripts
MaxTitleFragments == 5

TitleFragments == {<<"t">>, <<" ">>, <<"\n">>, <<"R", "e", "s", "u", "l", "t", "s">>}

InitTitles ==
  \E text \in TextsOf(TitleFragments, MaxTitleFragments) :
    afterRegistration(text, draftOf(JournalName, 5000, Vancouver), "en-US")

SpecTitles == InitTitles /\ [][formatDocument]_vars

\* number of fragments of the citation manuscripts
MaxReferenceFragments == 4

ReferenceFragments == {<<"[", "1", "2">>, <<"(", "3">>, <<"]">>, <<")">>, <<"x">>}

InitReferences ==
  \E text \in TextsOf(ReferenceFragments, MaxReferenceFragments) :
    \E k \in 1..Len(ReferenceStyles) :
      afterRegistration(text, draftOf(JournalName, 5000, ReferenceStyles[k]), "en-US")

SpecReferences == InitReferences /\ [][formatDocument]_vars

\* number of fragments of the section manuscripts
MaxSectionFragments == 4

SectionFragments ==
  { <<"A", "b", "s", "t", "r", "a", "c", "t">>,
    <<"m", "E", "T", "H", "O", "D", "S">>,
    <<"x">>, <<" ">>, <<"\n">>, <<".">> }

InitSections ==
  \E text \in TextsOf(SectionFragments, MaxSectionFragments) :
    afterRegistration(text, draftOf(JournalName, 5000, Vancouver), "en-US")

SpecSections == InitSections /\ [][formatDocument]_vars

\* number of fragments of the paragraph manuscripts
MaxParagraphFragments == 6

ParagraphFragments == {<<"a">>, <<"B">>, <<" ">>, <<"\n">>}

InitParagraphs ==
  \E text \in TextsOf(ParagraphFragments, MaxParagraphFragments) :
    afterRegistration(text, draftOf(JournalName, 5000, Vancouver), "en-US")

SpecParagraphs == InitParagraphs /\ [][formatDocument]_vars

\* number of fragments of the journal names
MaxNameFragments == 3

NameFragments == {<<"j">>, <<"Q">>, <<" ">>, <<"ß">>}

BannerTexts == {<<"a">>, <<"T", "\n", "\n", "b", " ", "c">>}

InitBanner ==
  \E name \in TextsOf(NameFragments, MaxNameFragments) \ {<<>>} :
    \E text \in BannerTexts :
      \E wordLimit \in {1, 5000} :
        \E style \in {Vancouver, IEEE} :
          \E loc \in Locales :
            afterRegistration(text, draftOf(name, wordLimit, style), loc)

SpecBanner == InitBanner /\ [][formatDocument]_vars

----------------------------------------------------------------------------
(* Vocabulary of the properties.                                           *)

\* every character of s is whitespace
Blank(s) == \A i \in 1..Len(s) : s[i] \in Whitespace

\* the whitespace-delimited tokens of s: its maximal runs of characters
\* that are not whitespace
Tokens(s) ==
  LET inTok(i) == i >= 1 /\ i <= Len(s) /\ s[i] \notin Whitespace
      first == positions(Len(s), LAMBDA i : inTok(i) /\ ~inTok(i - 1))
      last == positions(Len(s), LAMBDA i : inTok(i) /\ ~inTok(i + 1))
  IN [k \in 1..Len(first) |-> SubSeq(s, first[k], last[k])]

\* the lines of s
Lines(s) == split(s, "\n")

IsPrefix(p, s) == Len(p) <= Len(s) /\ SubSeq(s, 1, Len(p)) = p

IsSuffix(p, s) == Len(p) <= Len(s) /\ SubSeq(s, Len(s) - Len(p) + 1, Len(s)) = p

\* the last handler was a formatting request that returned a result
Formatted == run # Null /\ run[1] # <<>> /\ formattedDocument # Null /\ error = Null

\* the value a stage of the last request assigned to formattedText
stageOut(name) == run[1][CHOOSE i \in 1..Len(run[1]) : run[1][i].stage = name].out

\* the lines the banner block takes up
BannerLines == 10

\* the manuscript body of a formatted content: what follows the banner block
Body(content) ==
  LET ls == Lines(content) IN join(SubSeq(ls, BannerLines + 1, Len(ls)), <<"\n">>)

\* s holds one of the eight section names in some letter case
HasSectionName(s) ==
  \E k \in 1..Len(sections) : \E i \in 1..Len(s) : hasAt(s, i, sections[k], TRUE)

----------------------------------------------------------------------------
(* C1: a formatting request on a manuscript that is blank after trimming   *)
(* sets the empty-input error, runs no stage and leaves no result.         *)

C1_EmptyInput ==
  (run # Null /\ Blank(manuscriptText)) =>
    /\ error = Some(EmptyInputMessage)
    /\ run = Some(<<>>)
    /\ formattedDocument = Null

C1_Witness ==
  /\ run # Null
  /\ manuscriptText # <<>>
  /\ Blank(manuscriptText)
  /\ error = Some(EmptyInputMessage)

(* C2: when the manuscript has more tokens than the positive word limit L, *)
(* the text handed to the later stages is its first L tokens, in order,    *)
(* joined by single spaces.                                                *)

C2_Truncated ==
  LET L == selectedFormat.wordLimit
      in == Tokens(manuscriptText)
      out == stageOut("applyWordLimit")
  IN (Formatted /\ L > 0 /\ Len(in) > L) =>
       /\ Len(out) = L - 1 + Len(Flatten(SubSeq(in, 1, L)))
       /\ Tokens(out) = SubSeq(in, 1, L)
       /\ \A i \in 1..Len(out) : out[i] \in Whitespace => out[i] = " "

C2_Witness ==
  /\ Formatted
  /\ selectedFormat.wordLimit = 2
  /\ Len(Tokens(manuscriptText)) = 3
  /\ \E i \in 1..Len(manuscriptText) : manuscriptText[i] = "\n"

(* C3 as stated: when the manuscript has at most L tokens, the text handed *)
(* to Stage 2 is the raw text unchanged.                                   *)

C3_RawUnchanged ==
  (Formatted /\ Len(Tokens(manuscriptText)) <= selectedFormat.wordLimit) =>
    stageOut("applyWordLimit") = manuscriptText

(* C3 amended: when the manuscript has at most L tokens, the text handed   *)
(* to Stage 2 is the raw text without its leading and trailing whitespace; *)
(* everything between, every inner line break included, is unchanged.      *)

C3_TrimmedUnchanged ==
  LET out == stageOut("applyWordLimit")
  IN (Formatted /\ Len(Tokens(manuscriptText)) <= selectedFormat.wordLimit) =>
       /\ out[1] \notin Whitespace
       /\ out[Len(out)] \notin Whitespace
       /\ \E lead \in 0..Len(manuscriptText) :
            /\ Blank(SubSeq(manuscriptText, 1, lead))
            /\ SubSeq(manuscriptText, lead + 1, lead + Len(out)) = out
            /\ Blank(SubSeq(manuscriptText, lead + Len(out) + 1, Len(manuscriptText)))

C3_Witness ==
  /\ Formatted
  /\ Len(Tokens(manuscriptText)) = 2
  /\ selectedFormat.wordLimit = 2
  /\ manuscriptText[1] = "\n"
  /\ \E i \in 1..Len(stageOut("applyWordLimit")) : stageOut("applyWordLimit")[i] = "\n"

(* C4 as stated: for a positive word limit L, the manuscript body of the   *)
(* returned content has at most L tokens, for every reference style.       *)

C4_BodyWithinLimit ==
  (Formatted /\ selectedFormat.wordLimit > 0) =>
    Len(Tokens(Body(formattedDocument[1].content))) <= selectedFormat.wordLimit

(* C4 amended: for a positive word limit L, the text handed to the         *)
(* formatting stages has at most L tokens; the body of the returned        *)
(* content has at most L tokens when the reference style is none of APA,   *)
(* Harvard, Chicago, MLA and the manuscript holds no section name.         *)

C4_TruncatedWithinLimit ==
  LET L == selectedFormat.wordLimit
  IN (Formatted /\ L > 0) =>
       /\ Len(Tokens(stageOut("applyWordLimit"))) <= L
       /\ (/\ selectedFormat.referenceStyle \notin {APA, Harvard, Chicago, MLA}
           /\ ~HasSectionName(manuscriptText))
          => Len(Tokens(Body(formattedDocument[1].content))) <= L

C4_Witness ==
  /\ Formatted
  /\ selectedFormat.wordLimit = 1
  /\ selectedFormat.referenceStyle = Vancouver
  /\ Len(Tokens(manuscriptText)) = 2
  /\ ~HasSectionName(manuscriptText)
  /\ Len(Tokens(Body(formattedDocument[1].content))) = 1

(* C5: the output of the title stage has the first non-empty line of the   *)
(* manuscript rewritten to "TITLE: " followed by that line in upper case,  *)
(* and the text after that line is the input's when no section-underline   *)
(* pattern occurs.                                                         *)

C5_TitleRewritten ==
  LET in == stageOut("applyWordLimit")
      out == stageOut("formatTitles")
      title == <<"T", "I", "T", "L", "E", ":", " ">> \o toUpperCase(Lines(in)[1])
  IN Formatted =>
       /\ IsPrefix(title, out)
       /\ (\A i \in 1..Len(in) : ~hasAt(in, i, <<"\n", "\n">>, FALSE))
          => SubSeq(out, Len(title) + 1, Len(out)) = SubSeq(in, Len(Lines(in)[1]) + 1, Len(in))

(* C6: for each of the eleven styles the reference stage rewrites every    *)
(* [n] and every (n) as the style's row of the table says, in one pass     *)
(* over the text, and changes nothing else.                                *)

AuthorYearComma == <<"A", "u", "t", "h", "o", "r", ",", " ", "Y", "e", "a", "r">>

AuthorYear == <<"A", "u", "t", "h", "o", "r", " ", "Y", "e", "a", "r">>

AuthorPage == <<"A", "u", "t", "h", "o", "r", " ", "P", "a", "g", "e">>

\* the table: what [n] and (n) become in a style
BracketBecomes(style, n) ==
  CASE style = Vancouver -> <<"(">> \o n \o <<")">>
    [] style \in {APA, Harvard} -> <<"[">> \o AuthorYearComma \o <<"]">>
    [] style = Chicago -> <<"[">> \o AuthorYear \o <<"]">>
    [] style = MLA -> <<"[">> \o AuthorPage \o <<"]">>
    [] style = IEEE -> <<"[">> \o n \o <<"]">>
    [] style \in {AMA, CSE, ACS, Nature, Science} -> <<"^">> \o n \o <<"^">>

ParenBecomes(style, n) ==
  CASE style = Vancouver -> <<"(">> \o n \o <<")">>
    [] style \in {APA, Harvard} -> <<"(">> \o AuthorYearComma \o <<")">>
    [] style = Chicago -> <<"(">> \o AuthorYear \o <<")">>
    [] style = MLA -> <<"(">> \o AuthorPage \o <<")">>
    [] style = IEEE -> <<"[">> \o n \o <<"]">>
    [] style \in {AMA, CSE, ACS, Nature, Science} -> <<"^">> \o n \o <<"^">>

\* the text has, from position i, n characters: an opening bracket or
\* parenthesis, one or more digits, and the matching closing character
NumeralAt(s, i, n) ==
  /\ n >= 3
  /\ i + n - 1 <= Len(s)
  /\ <<s[i], s[i + n - 1]>> \in {<<"[", "]">>, <<"(", ")">>}
  /\ \A k \in (i + 1)..(i + n - 2) : s[k] \in DigitSet

\* length of the numeral that starts at i, 0 when none does
NumeralLen(s, i) ==
  IF \E n \in 3..Len(s) : NumeralAt(s, i, n)
  THEN CHOOSE n \in 3..Len(s) : NumeralAt(s, i, n)
  ELSE 0

\* every numeral of the text rewritten by the table, the rest kept
TableRewrite(text, style) ==
  replaceAll(text, NumeralLen,
             LAMBDA m : IF m[1] = "[" THEN BracketBecomes(style, SubSeq(m, 2, Len(m) - 1))
                        ELSE ParenBecomes(style, SubSeq(m, 2, Len(m) - 1)))

C6_ReferenceTable ==
  Formatted =>
    stageOut("formatReferences")
      = TableRewrite(stageOut("formatTitles"), selectedFormat.referenceStyle)

C6_Witness ==
  /\ Formatted
  /\ selectedFormat.referenceStyle = Vancouver
  /\ stageOut("formatTitles") = <<"(", "3", "[", "1", "2", "]", ")">>
  /\ stageOut("formatReferences") = <<"(", "3", "(", "1", "2", ")", ")">>

(* C7: the section stage replaces every whole-word occurrence of a section *)
(* name, in any letter case and anywhere in the text, by two newlines, the *)
(* name in upper case and a newline, then shortens every run of three or   *)
(* more newlines; its output has no run of three newlines, and every       *)
(* section name in it is upper case, preceded by exactly two newlines and  *)
(* followed by a newline.                                                  *)

\* length of the section name that stands as a whole word at position i of
\* s, in any letter case; 0 when none does
SectionAt(s, i) ==
  LET whole(w) == /\ hasAt(s, i, w, TRUE)
                  /\ (i = 1 \/ s[i - 1] \notin WordChars)
                  /\ (i + Len(w) > Len(s) \/ s[i + Len(w)] \notin WordChars)
  IN IF \E k \in 1..Len(sections) : whole(sections[k])
     THEN Len(sections[CHOOSE k \in 1..Len(sections) : whole(sections[k])])
     ELSE 0

\* every section name of the text made a header
Promoted(text) ==
  replaceAll(text, SectionAt, LAMBDA m : <<"\n", "\n">> \o toUpperCase(m) \o <<"\n">>)

\* the text without the newlines that follow two newlines
Collapsed(s) ==
  LET kept == positions(Len(s), LAMBDA i : ~(/\ i >= 3
                                             /\ s[i] = "\n"
                                             /\ s[i - 1] = "\n"
                                             /\ s[i - 2] = "\n"))
  IN [k \in 1..Len(kept) |-> s[kept[k]]]

C7_Sections ==
  LET in == stageOut("formatReferences")
      out == stageOut("formatSections")
  IN Formatted =>
       /\ out = Collapsed(Promoted(in))
       /\ \A i \in 1..(Len(out) - 2) : ~hasAt(out, i, <<"\n", "\n", "\n">>, FALSE)
       /\ \A i \in 1..Len(out) :
            LET n == SectionAt(out, i)
            IN n > 0 =>
                 /\ SubSeq(out, i, i + n - 1) = toUpperCase(SubSeq(out, i, i + n - 1))
                 /\ i >= 3 /\ out[i - 1] = "\n" /\ out[i - 2] = "\n"
                 /\ (i = 3 \/ out[i - 3] # "\n")
                 /\ i + n <= Len(out) /\ out[i + n] = "\n"

C7_Witness ==
  LET in == stageOut("formatReferences")
  IN /\ Formatted
     /\ \E i, j \in 1..Len(in) :
          /\ i < j
          /\ SectionAt(in, i) > 0
          /\ SectionAt(in, j) > 0
          /\ SubSeq(in, j, Len(in)) # toUpperCase(SubSeq(in, j, Len(in)))
     /\ Len(stageOut("formatSections")) < Len(Promoted(in))

(* C8: in the output of the paragraph stage every line after the first     *)
(* that is non-empty and not made of upper-case letters and whitespace     *)
(* only is the input line with four spaces put before it; the first line,  *)
(* the empty lines and the upper-case lines are the input lines.           *)

\* a line of upper-case letters and whitespace only
IsHeaderLine(line) == \A i \in 1..Len(line) : line[i] \in UpperSet \cup Whitespace

DigitsIn(s) == SelectSeq(s, LAMBDA c : c \in DigitSet)

\* the sequences ps occur in s one after another, in this order
RECURSIVE InOrder(_, _)
InOrder(ps, s) ==
  IF ps = <<>> THEN TRUE
  ELSE \E i \in 1..Len(s) :
         /\ hasAt(s, i, Head(ps), FALSE)
         /\ InOrder(Tail(ps), SubSeq(s, i + Len(Head(ps)), Len(s)))

C9_Banner ==
  LET content == formattedDocument[1].content
      format == formattedDocument[1].format
      ls == Lines(content)
  IN Formatted =>
       /\ Len(ls) > BannerLines
       /\ ls[1] = <<"F", "O", "R", "M", "A", "T", "T", "E", "D", " ", "F", "O", "R", ":", " ">>
                  \o toUpperCase(format.name)
       /\ ls[2] # <<>> /\ \A i \in 1..Len(ls[2]) : ls[2][i] = "="
       /\ ls[3] = <<>>
       /\ ls[4] = <<"F", "O", "R", "M", "A", "T", "T", "I", "N", "G", " ", "S", "P", "E", "C", "I", "F", "I", "C", "A", "T", "I", "O", "N", "S", ":">>
       /\ IsPrefix(<<"-", " ", "W", "o", "r", "d", " ", "L", "i", "m", "i", "t", ":", " ">>, ls[5])
       /\ DigitsIn(ls[5]) = digitsOf(format.wordLimit)
       /\ IsPrefix(<<"-", " ", "L", "i", "n", "e", " ", "S", "p", "a", "c", "i", "n", "g", ":", " ">>, ls[6])
       /\ ls[7] = <<"-", " ", "R", "e", "f", "e", "r", "e", "n", "c", "e", " ", "S", "t", "y", "l", "e", ":", " ">>
                  \o format.referenceStyle
       /\ ls[8] = <<"-", " ", "F", "o", "n", "t", ":", " ">> \o format.fontFamily
                  \o <<" ">> \o digitsOf(format.fontSize) \o <<"p", "t">>
       /\ IsPrefix(<<"-", " ", "M", "a", "r", "g", "i", "n", "s", ":", " ">>, ls[9])
       /\ InOrder(<< <<"t", "o", "p">>, <<"b", "o", "t", "t", "o", "m">>,
                     <<"l", "e", "f", "t">>, <<"r", "i", "g", "h", "t">> >>, ls[9])
       /\ ls[10] = <<>>
       /\ Body(content) = stageOut("formatParagraphs")

C9_Witness ==
  /\ Formatted
  /\ formattedDocument[1].format.wordLimit = 5000
  /\ formattedDocument[1].format.referenceStyle = IEEE
  /\ locale = "de-DE"
  /\ Len(Lines(stageOut("formatParagraphs"))) = 3

(* C10: the header line of the banner is as long as the line under it has  *)
(* "=" characters, whatever the format name.                               *)

C10_Underline ==
  LET ls == Lines(formattedDocument[1].content)
  IN Formatted =>
       Len(ls[1]) = Cardinality({i \in 1..Len(ls[2]) : ls[2][i] = "="})

C10_Witness ==
  LET ls == Lines(formattedDocument[1].content)
      name == formattedDocument[1].format.name
  IN /\ Formatted
     /\ Len(toUpperCase(name)) > Len(name)
     /\ Len(ls[1]) = Len(name) + 16
     /\ Len(ls[2]) = Len(ls[1])

(* C11: the wordCount of every result is the number of whitespace-         *)
(* delimited tokens of the result's content, banner lines included; it is  *)
(* not the count of the manuscript nor of the truncated text.              *)

C11_WordCount ==
  Formatted =>
    formattedDocument[1].wordCount = Len(Tokens(formattedDocument[1].content))

C11_Witness ==
  /\ Formatted
  /\ Len(Tokens(manuscriptText)) > Len(Tokens(stageOut("applyWordLimit")))
  /\ formattedDocument[1].wordCount > Len(Tokens(manuscriptText))
  /\ formattedDocument[1].wordCount > Len(Tokens(Body(formattedDocument[1].content)))

(* C12: the end-to-end example.  The manuscript "My Title", an empty line, *)
(* "Abstract", "Some text [1] and (2)." formatted for the test journal     *)
(* (IEEE, word limit 1000) yields a content with an ABSTRACT header line.  *)

ExampleTitle == <<"M", "y", " ", "T", "i", "t", "l", "e">>

ExampleSection == <<"A", "b", "s", "t", "r", "a", "c", "t">>

ExampleSentence ==
  << "S", "o", "m", "e", " ", "t", "e", "x", "t", " ", "[", "1", "]", " ",
     "a", "n", "d", " ", "(", "2", ")", "." >>

\* the manuscript of the example
ExampleText ==
  ExampleTitle \o <<"\n", "\n">> \o ExampleSection \o <<"\n">> \o ExampleSentence

\* the draft of the example's format
ExampleDraft ==
  [draftOf(<<"T", "e", "s", "t", " ", "J", "o", "u", "r", "n", "a", "l">>, 1000, IEEE)
     EXCEPT !.fontFamily = <<"A", "r", "i", "a", "l">>]

\* number of fragments of the example manuscripts
MaxExampleFragments == 4

ExampleFragments ==
  {ExampleTitle \o <<"\n", "\n">>, ExampleSection, <<"\n">>, ExampleSentence}

InitExample ==
  \E text \in TextsOf(ExampleFragments, MaxExampleFragments) :
    \E loc \in Locales :
      afterRegistration(text, ExampleDraft, loc)

SpecExample == InitExample /\ [][formatDocument]_vars

\* the example was formatted
ExampleFormatted ==
  /\ Formatted
  /\ manuscriptText = ExampleText
  /\ formattedDocument[1].format = newFormat(ExampleDraft, 0)

\* a line of one or more "=" and nothing else
IsUnderline(line) == line # <<>> /\ \A i \in 1..Len(line) : line[i] = "="

Abstract == <<"A", "B", "S", "T", "R", "A", "C", "T">>

\* C12 as stated: the line directly after the ABSTRACT header line is the
\* line of "=" characters
C12_UnderlineDirectlyAfter ==
  LET ls == Lines(formattedDocument[1].content)
  IN ExampleFormatted =>
       \E k \in 1..(Len(ls) - 1) : ls[k] = Abstract /\ IsUnderline(ls[k + 1])

(* C12 amended: the content of the example has an ABSTRACT header line,    *)
(* followed by an empty line and then by the line of eight "=" characters  *)
(* indented by four spaces; [1] is kept and (2) has become [2].            *)

C12_UnderlineAfterEmptyLine ==
  LET ls == Lines(formattedDocument[1].content)
  IN ExampleFormatted =>
       /\ \E k \in 1..(Len(ls) - 2) :
            /\ ls[k] = Abstract
            /\ ls[k + 1] = <<>>
            /\ ls[k + 2] = <<" ", " ", " ", " ">> \o repeat("=", Len(Abstract))
       /\ ls[Len(ls)] = <<" ", " ", " ", " ">> \o
            << "S", "o", "m", "e", " ", "t", "e", "x", "t", " ", "[", "1",
               "]", " ", "a", "n", "d", " ", "[", "2", "]", "." >>

C12_Witness ==
  /\ ExampleFormatted
  /\ Lines(formattedDocument[1].content)[1]
       = <<"F", "O", "R", "M", "A", "T", "T", "E", "D", " ", "F", "O", "R", ":", " ", "T", "E", "S", "T", " ", "J", "O", "U", "R", "N", "A", "L">>

----------------------------------------------------------------------------
(* The sample manuscript.                                                  *)

\* createTestDocument: the lines of the template literal testContent
testContentLines ==
  <<
    << "E", "f", "f", "e", "c", "t", "i", "v", "e", "n", "e", "s", "s", " ",
       "o", "f", " ", "N", "o", "v", "e", "l", " ", "D", "e", "n", "t", "a",
       "l", " ", "T", "r", "e", "a", "t", "m", "e", "n", "t", " ", "A", "p",
       "p", "r", "o", "a", "c", "h", "e", "s", " ", "i", "n", " ", "C", "l",
       "i", "n", "i", "c", "a", "l", " ", "P", "r", "a", "c", "t", "i", "c",
       "e" >>,
    <<>>,
    << "A", "b", "s", "t", "r", "a", "c", "t" >>,
    <<>>,
    << "T", "h", "i", "s", " ", "i", "s", " ", "a", " ", "s", "a", "m", "p",
       "l", "e", " ", "r", "e", "s", "e", "a", "r", "c", "h", " ", "m", "a",
       "n", "u", "s", "c", "r", "i", "p", "t", " ", "f", "o", "r", " ", "t",
       "e", "s", "t", "i", "n", "g", " ", "t", "h", "e", " ", "p", "u", "b",
       "l", "i", "c", "a", "t", "i", "o", "n", " ", "f", "o", "r", "m", "a",
       "t", "t", "e", "r", ".", " ", "T", "h", "e", " ", "d", "o", "c", "u",
       "m", "e", "n", "t", " ", "c", "o", "n", "t", "a", "i", "n", "s", " ",
       "v", "a", "r", "i", "o", "u", "s", " ", "s", "e", "c", "t", "i", "o",
       "n", "s", " ", "i", "n", "c", "l", "u", "d", "i", "n", "g", " ", "i",
       "n", "t", "r", "o", "d", "u", "c", "t", "i", "o", "n", ",", " ", "m",
       "e", "t", "h", "o", "d", "o", "l", "o", "g", "y", ",", " ", "r", "e",
       "s", "u", "l", "t", "s", ",", " ", "a", "n", "d", " ", "c", "o", "n",
       "c", "l", "u", "s", "i", "o", "n", ".", " ", "R", "e", "c", "e", "n",
       "t", " ", "s", "t", "u", "d", "i", "e", "s", " ", "[", "1", ",", "2",
       "]", " ", "h", "a", "v", "e", " ", "s", "h", "o", "w", "n", " ", "p",
       "r", "o", "m", "i", "s", "i", "n", "g", " ", "r", "e", "s", "u", "l",
       "t", "s", " ", "i", "n", " ", "d", "e", "n", "t", "a", "l", " ", "t",
       "r", "e", "a", "t", "m", "e", "n", "t", " ", "o", "u", "t", "c", "o",
       "m", "e", "s", "." >>,
    <<>>,
    << "I", "n", "t", "r", "o", "d", "u", "c", "t", "i", "o", "n" >>,
    <<>>,
    << "D", "e", "n", "t", "a", "l", " ", "r", "e", "s", "e", "a", "r", "c",
       "h", " ", "h", "a", "s", " ", "b", "e", "c", "o", "m", "e", " ", "i",
       "n", "c", "r", "e", "a", "s", "i", "n", "g", "l", "y", " ", "i", "m",
       "p", "o", "r", "t", "a", "n", "t", " ", "i", "n", " ", "m", "o", "d",
       "e", "r", "n", " ", "h", "e", "a", "l", "t", "h", "c", "a", "r", "e",
       " ", "[", "3", "]", ".", " ", "T", "h", "i", "s", " ", "s", "t", "u",
       "d", "y", " ", "e", "x", "a", "m", "i", "n", "e", "s", " ", "t", "h",
       "e", " ", "e", "f", "f", "e", "c", "t", "i", "v", "e", "n", "e", "s",
       "s", " ", "o", "f", " ", "v", "a", "r", "i", "o", "u", "s", " ", "d",
       "e", "n", "t", "a", "l", " ", "t", "r", "e", "a", "t", "m", "e", "n",
       "t", "s", " ", "a", "n", "d", " ", "t", "h", "e", "i", "r", " ", "i",
       "m", "p", "a", "c", "t", " ", "o", "n", " ", "p", "a", "t", "i", "e",
       "n", "t", " ", "o", "u", "t", "c", "o", "m", "e", "s", ".", " ", "P",
       "r", "e", "v", "i", "o", "u", "s", " ", "r", "e", "s", "e", "a", "r",
       "c", "h", " ", "[", "4", "]", " ", "h", "a", "s", " ", "i", "n", "d",
       "i", "c", "a", "t", "e", "d", " ", "s", "i", "g", "n", "i", "f", "i",
       "c", "a", "n", "t", " ", "v", "a", "r", "i", "a", "t", "i", "o", "n",
       "s", " ", "i", "n", " ", "t", "r", "e", "a", "t", "m", "e", "n", "t",
       " ", "s", "u", "c", "c", "e", "s", "s", " ", "r", "a", "t", "e", "s",
       "." >>,
    <<>>,
    << "M", "e", "t", "h", "o", "d", "o", "l", "o", "g", "y" >>,
    <<>>,
    << "W", "e", " ", "c", "o", "n", "d", "u", "c", "t", "e", "d", " ", "a",
       " ", "r", "a", "n", "d", "o", "m", "i", "z", "e", "d", " ", "c", "o",
       "n", "t", "r", "o", "l", "l", "e", "d", " ", "t", "r", "i", "a", "l",
       " ", "i", "n", "v", "o", "l", "v", "i", "n", "g", " ", "2", "0", "0",
       " ", "p", "a", "r", "t", "i", "c", "i", "p", "a", "n", "t", "s", " ",
       "[", "5", "]", ".", " ", "T", "h", "e", " ", "s", "t", "u", "d", "y",
       " ", "w", "a", "s", " ", "a", "p", "p", "r", "o", "v", "e", "d", " ",
       "b", "y", " ", "t", "h", "e", " ", "i", "n", "s", "t", "i", "t", "u",
       "t", "i", "o", "n", "a", "l", " ", "r", "e", "v", "i", "e", "w", " ",
       "b", "o", "a", "r", "d", " ", "a", "n", "d", " ", "a", "l", "l", " ",
       "p", "a", "r", "t", "i", "c", "i", "p", "a", "n", "t", "s", " ", "p",
       "r", "o", "v", "i", "d", "e", "d", " ", "i", "n", "f", "o", "r", "m",
       "e", "d", " ", "c", "o", "n", "s", "e", "n", "t", ".", " ", "D", "a",
       "t", "a", " ", "c", "o", "l", "l", "e", "c", "t", "i", "o", "n", " ",
       "m", "e", "t", "h", "o", "d", "s", " ", "f", "o", "l", "l", "o", "w",
       "e", "d", " ", "e", "s", "t", "a", "b", "l", "i", "s", "h", "e", "d",
       " ", "p", "r", "o", "t", "o", "c", "o", "l", "s", " ", "[", "6", "]",
       "." >>,
    <<>>,
    << "R", "e", "s", "u", "l", "t", "s" >>,
    <<>>,
    << "O", "u", "r", " ", "f", "i", "n", "d", "i", "n", "g", "s", " ", "i",
       "n", "d", "i", "c", "a", "t", "e", " ", "s", "i", "g", "n", "i", "f",
       "i", "c", "a", "n", "t", " ", "i", "m", "p", "r", "o", "v", "e", "m",
       "e", "n", "t", "s", " ", "i", "n", " ", "d", "e", "n", "t", "a", "l",
       " ", "h", "e", "a", "l", "t", "h", " ", "o", "u", "t", "c", "o", "m",
       "e", "s", ".", " ", "T", "h", "e", " ", "t", "r", "e", "a", "t", "m",
       "e", "n", "t", " ", "g", "r", "o", "u", "p", " ", "s", "h", "o", "w",
       "e", "d", " ", "a", " ", "2", "5", "%", " ", "i", "m", "p", "r", "o",
       "v", "e", "m", "e", "n", "t", " ", "c", "o", "m", "p", "a", "r", "e",
       "d", " ", "t", "o", " ", "t", "h", "e", " ", "c", "o", "n", "t", "r",
       "o", "l", " ", "g", "r", "o", "u", "p", " ", "[", "7", "]", ".", " ",
       "S", "t", "a", "t", "i", "s", "t", "i", "c", "a", "l", " ", "a", "n",
       "a", "l", "y", "s", "i", "s", " ", "r", "e", "v", "e", "a", "l", "e",
       "d", " ", "p", " ", "<", " ", "0", ".", "0", "0", "1", " ", "s", "i",
       "g", "n", "i", "f", "i", "c", "a", "n", "c", "e", " ", "l", "e", "v",
       "e", "l", "s", "." >>,
    <<>>,
    << "D", "i", "s", "c", "u", "s", "s", "i", "o", "n" >>,
    <<>>,
    << "T", "h", "e", " ", "r", "e", "s", "u", "l", "t", "s", " ", "d", "e",
       "m", "o", "n", "s", "t", "r", "a", "t", "e", " ", "c", "l", "e", "a",
       "r", " ", "b", "e", "n", "e", "f", "i", "t", "s", " ", "o", "f", " ",
       "t", "h", "e", " ", "p", "r", "o", "p", "o", "s", "e", "d", " ", "t",
       "r", "e", "a", "t", "m", "e", "n", "t", " ", "a", "p", "p", "r", "o",
       "a", "c", "h", " ", "[", "8", "]", ".", " ", "T", "h", "e", "s", "e",
       " ", "f", "i", "n", "d", "i", "n", "g", "s", " ", "a", "l", "i", "g",
       "n", " ", "w", "i", "t", "h", " ", "p", "r", "e", "v", "i", "o", "u",
       "s", " ", "r", "e", "s", "e", "a", "r", "c", "h", " ", "[", "9", "]",
       " ", "a", "n", "d", " ", "s", "u", "g", "g", "e", "s", "t", " ", "b",
       "r", "o", "a", "d", "e", "r", " ", "a", "p", "p", "l", "i", "c", "a",
       "t", "i", "o", "n", "s", " ", "i", "n", " ", "c", "l", "i", "n", "i",
       "c", "a", "l", " ", "p", "r", "a", "c", "t", "i", "c", "e", "." >>,
    <<>>,
    << "C", "o", "n", "c", "l", "u", "s", "i", "o", "n" >>,
    <<>>,
    << "T", "h", "i", "s", " ", "r", "e", "s", "e", "a", "r", "c", "h", " ",
       "d", "e", "m", "o", "n", "s", "t", "r", "a", "t", "e", "s", " ", "t",
       "h", "e", " ", "e", "f", "f", "e", "c", "t", "i", "v", "e", "n", "e",
       "s", "s", " ", "o", "f", " ", "t", "h", "e", " ", "p", "r", "o", "p",
       "o", "s", "e", "d", " ", "d", "e", "n", "t", "a", "l", " ", "t", "r",
       "e", "a", "t", "m", "e", "n", "t", " ", "a", "p", "p", "r", "o", "a",
       "c", "h", ".", " ", "F", "u", "r", "t", "h", "e", "r", " ", "s", "t",
       "u", "d", "i", "e", "s", " ", "a", "r", "e", " ", "r", "e", "c", "o",
       "m", "m", "e", "n", "d", "e", "d", " ", "t", "o", " ", "v", "a", "l",
       "i", "d", "a", "t", "e", " ", "t", "h", "e", "s", "e", " ", "f", "i",
       "n", "d", "i", "n", "g", "s", " ", "[", "1", "0", "]", "." >>,
    <<>>,
    << "R", "e", "f", "e", "r", "e", "n", "c", "e", "s" >>,
    <<>>,
    << "1", ".", " ", "S", "m", "i", "t", "h", ",", " ", "J", ".", " ", "(",
       "2", "0", "2", "3", ")", ".", " ", "M", "o", "d", "e", "r", "n", " ",
       "D", "e", "n", "t", "a", "l", " ", "R", "e", "s", "e", "a", "r", "c",
       "h", ".", " ", "J", "o", "u", "r", "n", "a", "l", " ", "o", "f", " ",
       "D", "e", "n", "t", "i", "s", "t", "r", "y", ",", " ", "4", "5", "(",
       "2", ")", ",", " ", "1", "2", "3", "-", "1", "3", "5", "." >>,
    << "2", ".", " ", "J", "o", "h", "n", "s", "o", "n", ",", " ", "A", ".",
       " ", "(", "2", "0", "2", "3", ")", ".", " ", "C", "l", "i", "n", "i",
       "c", "a", "l", " ", "A", "p", "p", "l", "i", "c", "a", "t", "i", "o",
       "n", "s", " ", "i", "n", " ", "D", "e", "n", "t", "i", "s", "t", "r",
       "y", ".", " ", "D", "e", "n", "t", "a", "l", " ", "S", "c", "i", "e",
       "n", "c", "e", ",", " ", "1", "2", "(", "4", ")", ",", " ", "6", "7",
       "-", "7", "8", "." >>,
    << "3", ".", " ", "B", "r", "o", "w", "n", ",", " ", "M", ".", " ", "(",
       "2", "0", "2", "3", ")", ".", " ", "H", "e", "a", "l", "t", "h", "c",
       "a", "r", "e", " ", "I", "n", "n", "o", "v", "a", "t", "i", "o", "n",
       "s", ".", " ", "M", "e", "d", "i", "c", "a", "l", " ", "R", "e", "s",
       "e", "a", "r", "c", "h", ",", " ", "3", "3", "(", "1", ")", ",", " ",
       "4", "5", "-", "5", "2", "." >>,
    << "4", ".", " ", "W", "i", "l", "s", "o", "n", ",", " ", "K", ".", " ",
       "(", "2", "0", "2", "3", ")", ".", " ", "T", "r", "e", "a", "t", "m",
       "e", "n", "t", " ", "O", "u", "t", "c", "o", "m", "e", "s", ".", " ",
       "C", "l", "i", "n", "i", "c", "a", "l", " ", "S", "t", "u", "d", "i",
       "e", "s", ",", " ", "1", "8", "(", "3", ")", ",", " ", "8", "9", "-",
       "9", "7", "." >>,
    << "5", ".", " ", "D", "a", "v", "i", "s", ",", " ", "L", ".", " ", "(",
       "2", "0", "2", "3", ")", ".", " ", "R", "e", "s", "e", "a", "r", "c",
       "h", " ", "M", "e", "t", "h", "o", "d", "o", "l", "o", "g", "y", ".",
       " ", "S", "c", "i", "e", "n", "t", "i", "f", "i", "c", " ", "M", "e",
       "t", "h", "o", "d", "s", ",", " ", "2", "2", "(", "4", ")", ",", " ",
       "1", "5", "6", "-", "1", "6", "4", "." >>
  >>

\* createTestDocument: const testContent
testContent == join(testContentLines, <<"\n">>)

\* a variant of createTestDocument without setFormattedDocument(null)
createTestDocument_keepingResult ==
  /\ pc = "mounted"
  /\ manuscriptText' = testContent
  /\ error' = Null
  /\ run' = Null
  /\ UNCHANGED <<file, extraction, formattedDocument, journalFormats, selectedFormat,
                 isProcessing, showCustomFormat, customFormat, localStorage, now,
                 locale, pc>>

\* the button that loads the sample manuscript
createTestDocument ==
  /\ pc = "mounted"
  /\ manuscriptText' = testContent
  /\ formattedDocument' = Null
  /\ error' = Null
  /\ run' = Null
  /\ UNCHANGED <<file, extraction, journalFormats, selectedFormat, isProcessing, showCustomFormat,
                 customFormat, localStorage, now, locale, pc>>

----------------------------------------------------------------------------
(* The registry of formats: start-up with what an earlier session left in  *)
(* storage, and the registrations of one session.                          *)

\* a format an earlier session registered, at clock reading 0
StoredFormat == newFormat([InitialCustomFormat EXCEPT !.name = <<"O", "l", "d">>], 0)

\* a stored record that lacks the margins of a format
StoredWithoutMargins ==
  [ id |-> StoredFormat.id,
    name |-> StoredFormat.name,
    description |-> StoredFormat.description,
    lineSpacing |-> StoredFormat.lineSpacing,
    wordLimit |-> StoredFormat.wordLimit,
    referenceStyle |-> StoredFormat.referenceStyle,
    fontFamily |-> StoredFormat.fontFamily,
    fontSize |-> StoredFormat.fontSize ]

\* the fields of a JournalFormat
FormatFields == DOMAIN DEFAULT_JOURNAL_FORMATS[1]

\* the value under the key 'customFormats' is an array of formats
ValidStorage(stored) ==
  /\ stored # Null
  /\ stored[1].json = "array"
  /\ \A i \in 1..Len(stored[1].items) : DOMAIN stored[1].items[i] = FormatFields

\* the value under the key is corrupt: no array of formats
CorruptStorage(stored) == stored # Null /\ ~ValidStorage(stored)

\* what the key 'customFormats' holds when the session starts
RegistryStorage ==
  { Null,
    Some(array(<<>>)),
    Some(array(<<StoredFormat>>)),
    Some(array(<<StoredWithoutMargins>>)),
    Some(objectText),
    Some(nullText),
    Some(unparseableText) }

\* names typed into the form of the registry sessions
RegistryNames == {<<>>, <<" ">>, <<"J">>}

\* word limits typed into the form: a negative number, and 0 for an
\* emptied field
RegistryWordLimits == {-1, 0}

\* most formats the registry of a session holds beyond the built-in ones
MaxRegistrations == 2

\* latest reading of the clock in a registry session; the earlier session
\* read 0
MaxClock == 2

InitRegistry ==
  /\ manuscriptText = <<>>
  /\ journalFormats = DEFAULT_JOURNAL_FORMATS
  /\ selectedFormat = DEFAULT_JOURNAL_FORMATS[1]
  /\ formattedDocument = Null
  /\ isProcessing = FALSE
  /\ error = Null
  /\ showCustomFormat = FALSE
  /\ customFormat = InitialCustomFormat
  /\ localStorage \in RegistryStorage
  /\ now = 0
  /\ locale = "en-US"
  /\ pc = "constructed"
  /\ run = Null
  /\ file = NoFile
  /\ extraction = NotCalled

\* the clock readings of a registration: later than the earlier session's,
\* not before the last one
Readings == {t \in 1..MaxClock : t >= now}

\* a registration of the session
register ==
  /\ customFormat.name = <<>> \/ Len(journalFormats) < Len(DEFAULT_JOURNAL_FORMATS) + MaxRegistrations
  /\ \E t \in Readings : saveCustomFormat(t)

NextRegistry ==
  \/ mount
  \/ toggleCustomFormat
  \/ \E value \in RegistryNames : onChangeName(value)
  \/ \E value \in RegistryWordLimits : onChangeWordLimit(value)
  \/ register

SpecRegistry == InitRegistry /\ [][NextRegistry]_vars

(* C13: a registration with an empty or whitespace-only name fails with    *)
(* the validation error and leaves the list of formats, the selected       *)
(* format and the stored array as they were.                               *)

C13_BlankNameRejected ==
  [][(register /\ Blank(customFormat.name)) =>
       /\ error' = Some(MissingNameMessage)
       /\ UNCHANGED <<journalFormats, selectedFormat, localStorage>>]_vars

(* C14: no two formats of the registry have the same id, whatever the      *)
(* clock read at the registrations of the session.                         *)

C14_UniqueIds ==
  \A i, j \in 1..Len(journalFormats) :
    i # j => journalFormats[i].id # journalFormats[j].id

(* C15: a successful registration appends the new format as the last       *)
(* element of the list of formats and the same record as the last element  *)
(* of the array stored under 'customFormats', which it creates when the    *)
(* key is absent; the earlier elements of both are unchanged.              *)

C15_Appended ==
  [][(register /\ customFormat.name # <<>> /\ ~CorruptStorage(localStorage)) =>
       LET format == journalFormats'[Len(journalFormats')]
           stored == IF localStorage = Null THEN <<>> ELSE localStorage[1].items
       IN /\ journalFormats' = Append(journalFormats, format)
          /\ format.name = customFormat.name
          /\ localStorage' = Some(array(Append(stored, format)))]_vars

C15_Witness ==
  /\ pc = "mounted"
  /\ Len(journalFormats) = Len(DEFAULT_JOURNAL_FORMATS) + 2
  /\ journalFormats[Len(journalFormats)].name = <<"J">>
  /\ localStorage = Some(array(<<StoredFormat, journalFormats[Len(journalFormats)]>>))

(* C16: when the value stored under 'customFormats' is corrupt, start-up   *)
(* ends without an uncaught error and with the built-in formats as the     *)
(* list of formats.                                                        *)

C16_CorruptStorageRecovered ==
  [][(mount /\ CorruptStorage(localStorage)) =>
       /\ pc' = "mounted"
       /\ journalFormats' = DEFAULT_JOURNAL_FORMATS]_vars

(* C17: after start-up with a valid stored array the list of formats is    *)
(* the five built-in formats in their order followed by the stored formats *)
(* in their order; the built-in formats are the first five of the list in  *)
(* every state.                                                            *)

C17_BuiltInsFirst ==
  /\ IsPrefix(DEFAULT_JOURNAL_FORMATS, journalFormats)
  /\ Len(DEFAULT_JOURNAL_FORMATS) = 5
  /\ (pc = "mounted" /\ ValidStorage(localStorage))
     => journalFormats = DEFAULT_JOURNAL_FORMATS \o localStorage[1].items

C17_Witness ==
  /\ pc = "mounted"
  /\ ValidStorage(localStorage)
  /\ customFormat = InitialCustomFormat
  /\ journalFormats = Append(DEFAULT_JOURNAL_FORMATS, StoredFormat)

(* C20: every format that can reach the pipeline has every field, with a   *)
(* valid value; its wordLimit is a positive integer.                       *)

\* a format with every field and valid numbers
ValidFormat(format) ==
  /\ DOMAIN format = FormatFields
  /\ format.name # <<>>
  /\ format.wordLimit > 0
  /\ format.lineSpacing > 0
  /\ format.fontSize > 0
  /\ \E k \in 1..Len(ReferenceStyles) : format.referenceStyle = ReferenceStyles[k]

C20_ValidFormats ==
  /\ ValidFormat(selectedFormat)
  /\ ~CorruptStorage(localStorage)
     => \A i \in 1..Len(journalFormats) : ValidFormat(journalFormats[i])

----------------------------------------------------------------------------
(* Sessions of editing and formatting, with a stored record that lacks     *)
(* the margins among the formats.                                          *)

SessionStorage == {Null, Some(array(<<StoredWithoutMargins>>))}

\* texts typed into the textarea of the sessions
SessionTexts == {<<>>, <<" ">>, <<"a", " ", "[", "1", "]">>}

InitSession ==
  /\ manuscriptText = <<>>
  /\ journalFormats = DEFAULT_JOURNAL_FORMATS
  /\ selectedFormat = DEFAULT_JOURNAL_FORMATS[1]
  /\ formattedDocument = Null
  /\ isProcessing = FALSE
  /\ error = Null
  /\ showCustomFormat = FALSE
  /\ customFormat = InitialCustomFormat
  /\ localStorage \in SessionStorage
  /\ now = 0
  /\ locale = "en-US"
  /\ pc = "constructed"
  /\ run = Null
  /\ file = NoFile
  /\ extraction = NotCalled

\* an edit of the manuscript: typing, or loading the sample
edit ==
  \/ \E value \in SessionTexts : onChangeManuscriptText(value)
  \/ createTestDocument

NextSession ==
  \/ mount
  \/ edit
  \/ \E i \in 1..Len(journalFormats) : onChangeJournalFormat(journalFormats[i])
  \/ formatDocument

SpecSession == InitSession /\ [][NextSession]_vars

(* C18: a failed formatting request, for a blank manuscript or for an      *)
(* exception in the pipeline, leaves an error message and no result: no    *)
(* state holds the error of a failed request and an earlier result.        *)

C18_NoResultWithError ==
  (run # Null /\ error # Null) => formattedDocument = Null

(* C19: every edit of the manuscript, typed or loaded from the sample,     *)
(* clears the result and the error in the same step.                       *)

C19_EditClears ==
  [][edit => (formattedDocument' = Null /\ error' = Null)]_vars

C19_Witness ==
  /\ manuscriptText = testContent
  /\ selectedFormat = StoredWithoutMargins
  /\ formattedDocument = Null
  /\ error = Null


----------------------------------------------------------------------------
(* C21: collapsing runs of two or more newlines to two a second time gives *)
(* the text the first collapse gave, and it leaves the text that the       *)
(* section stage's collapse of runs of three or more produced as it is:    *)
(* for the manuscript and for what the section stage handed on.            *)

C21_CollapseIdempotent ==
  /\ paragraphSpacing(paragraphSpacing(manuscriptText)) = paragraphSpacing(manuscriptText)
  /\ paragraphSpacing(sectionSpacing(manuscriptText)) = sectionSpacing(manuscriptText)
  /\ Formatted =>
       paragraphSpacing(stageOut("formatSections")) = stageOut("formatSections")

C21_Witness ==
  /\ Formatted
  /\ \E i \in 1..Len(manuscriptText) : newlineRun(3, manuscriptText, i) > 2
  /\ paragraphSpacing(manuscriptText) # manuscriptText
  /\ sectionSpacing(manuscriptText) = paragraphSpacing(manuscriptText)

----------------------------------------------------------------------------
(* The text extractor (src/app/utils/docxParser.ts).  A File is a record   *)
(* of its MIME type and its bytes; a promise is a record of its state and  *)
(* of the string it was fulfilled with or the message of the Error it was  *)
(* rejected with.                                                          *)

\* the characters of the code points 32..95
AsciiPrintable ==
  <<
    " ", "!", "\"", "#", "$", "%", "&", "'", "(", ")", "*", "+", ",", "-",
    ".", "/", "0", "1", "2", "3", "4", "5", "6", "7", "8", "9", ":", ";",
    "<", "=", ">", "?", "@", "A", "B", "C", "D", "E", "F", "G", "H", "I",
    "J", "K", "L", "M", "N", "O", "P", "Q", "R", "S", "T", "U", "V", "W",
    "X", "Y", "Z", "[", "\\", "]", "^", "_"
  >>

\* the characters of the code points 123..126
AsciiBraces == <<"{", "|", "}", "~">>

\* U+FFFD, which the decoder puts in place of a byte that is not UTF-8
ReplacementCharacter == "�"

\* new TextDecoder('utf-8').decode on one byte: an ASCII byte is its
\* character, a byte that occurs in no UTF-8 sequence (0xF8..0xFF) is
\* replaced; the files hold no other bytes
decodeByte(b) ==
  CASE b \in 32..95 -> AsciiPrintable[b - 31]
    [] b \in 97..122 -> LowerLetters[b - 96]
    [] b \in 123..126 -> AsciiBraces[b - 122]
    [] b = 9 -> "\t"
    [] b = 10 -> "\n"
    [] b = 13 -> "\r"
    [] b \in 248..255 -> ReplacementCharacter

\* decoder.decode(uint8Array) and file.text()
decode(bytes) == [i \in 1..Len(bytes) |-> decodeByte(bytes[i])]

\* the position of the first c of s at or after from, 0 when there is none
indexOfFrom(s, c, from) ==
  LET at == positions(Len(s), LAMBDA j : j >= from /\ s[j] = c)
  IN IF at = <<>> THEN 0 ELSE at[1]

\* /<tag[^>]*>([^<]*)<\/tag>/ at position i: the opening tag ends at the
\* first ">" and the text ends at the first "<" after it
elementMatch(tag, s, i) ==
  IF hasAt(s, i, <<"<">> \o tag, FALSE)
  THEN LET gt == indexOfFrom(s, ">", i + Len(tag) + 1)
           lt == IF gt = 0 THEN 0 ELSE indexOfFrom(s, "<", gt + 1)
       IN IF lt > 0 /\ hasAt(s, lt, <<"<", "/">> \o tag \o <<">">>, FALSE)
          THEN lt + Len(tag) + 3 - i
          ELSE 0
  ELSE 0

\* match.replace(/<tag[^>]*>([^<]*)<\/tag>/, '$1')
textContent(match) ==
  LET gt == indexOfFrom(match, ">", 1)
  IN SubSeq(match, gt + 1, indexOfFrom(match, "<", gt + 1) - 1)

\* String.prototype.match(regex with the g flag): the matches, leftmost and
\* not overlapping; the empty sequence stands for null
match(s, matchLen(_, _)) ==
  LET candidates == positions(Len(s), LAMBDA i : matchLen(s, i) > 0)
      RECURSIVE taken(_, _)
      taken(k, from) ==
        IF k > Len(candidates) THEN <<>>
        ELSE IF candidates[k] < from THEN taken(k + 1, from)
        ELSE <<candidates[k]>> \o taken(k + 1, candidates[k] + matchLen(s, candidates[k]))
      matches == taken(1, 1)
  IN [k \in 1..Len(matches) |->
        SubSeq(s, matches[k], matches[k] + matchLen(s, matches[k]) - 1)]

\* /cls{min,}/ at position i
classRun(cls, min, s, i) ==
  LET n == runLength(s, i, cls) IN IF n >= min THEN n ELSE 0

\* .replace(/\s+/g, ' ').trim()
normalizeSpace(s) ==
  trim(replaceAll(s, LAMBDA t, i : classRun(Whitespace, 1, t, i), LAMBDA m : <<" ">>))

\* the texts of the elements named tag, joined by spaces and normalized
elementText(content, tag) ==
  normalizeSpace(join([k \in DOMAIN match(content, LAMBDA s, i : elementMatch(tag, s, i)) |->
                         textContent(match(content, LAMBDA s, i : elementMatch(tag, s, i))[k])],
                      <<" ">>))

\* readableText += matches.join(' ') + ' ' when the pattern has matches
readablePart(matches) ==
  IF matches = <<>> THEN <<>> ELSE join(matches, <<" ">>) \o <<" ">>

\* the loop over readablePatterns, then the normalization
readableText(content) ==
  normalizeSpace(
    readablePart(match(content, LAMBDA s, i : classRun(LowerSet \cup UpperSet, 3, s, i)))
    \o readablePart(match(content, LAMBDA s, i : classRun(DigitSet, 1, s, i)))
    \o readablePart(match(content, LAMBDA s, i : classRun({".", "!", "?"}, 1, s, i))))

\* readableText.length > 50
MinReadable == 50

InvalidDocxMessage == "Invalid DOCX file format"

NoReadableTextMessage == "No readable text content found in DOCX file"

FailedDocxMessage ==
  "Failed to extract text from DOCX file. Please try converting to .txt format first."

UnsupportedTypeMessage == "Unsupported file type. Please use .docx or .txt files."

TextPlain == "text/plain"

DocxType == "application/vnd.openxmlformats-officedocument.wordprocessingml.document"

fulfilled(text) == [state |-> "fulfilled", value |-> text]

\* a rejection: the message is kept as a one-element sequence, so that the
\* values of all promises are sequences
rejected(message) == [state |-> "rejected", value |-> <<message>>]

\* uint8Array[0] !== 0x50 || uint8Array[1] !== 0x4B
invalidSignature(bytes) ==
  Len(bytes) < 2 \/ bytes[1] # 80 \/ bytes[2] # 75

\* a variant of docxTry that returns the text of the w:t elements as it is
docxTry_anyText(bytes) ==
  IF invalidSignature(bytes) THEN rejected(InvalidDocxMessage)
  ELSE fulfilled(elementText(decode(bytes), <<"w", ":", "t">>))

\* the try block of extractTextFromDocx: the promise it would settle
docxTry(bytes) ==
  IF invalidSignature(bytes) THEN rejected(InvalidDocxMessage)
  ELSE IF Len(elementText(decode(bytes), <<"w", ":", "t">>)) > 0
  THEN fulfilled(elementText(decode(bytes), <<"w", ":", "t">>))
  ELSE IF Len(elementText(decode(bytes), <<"t">>)) > 0
  THEN fulfilled(elementText(decode(bytes), <<"t">>))
  ELSE IF Len(readableText(decode(bytes))) > MinReadable
  THEN fulfilled(readableText(decode(bytes)))
  ELSE rejected(NoReadableTextMessage)

\* the catch block: every error of the try block is replaced
caught(promise) ==
  IF promise.state = "rejected" THEN rejected(FailedDocxMessage) ELSE promise

extractTextFromDocx(f) == caught(docxTry(f.bytes))

extractTextFromTxt(f) == fulfilled(decode(f.bytes))

\* the promise extractTextFromFile(f) returns, settled
extractTextFromFileOf(f) ==
  IF f.type = TextPlain THEN extractTextFromTxt(f)
  ELSE IF f.type = DocxType THEN extractTextFromDocx(f)
  ELSE rejected(UnsupportedTypeMessage)

\* a call of extractTextFromFile with the file, awaited
extractTextFromFile ==
  /\ extraction = NotCalled
  /\ extraction' = extractTextFromFileOf(file)
  /\ UNCHANGED <<manuscriptText, journalFormats, selectedFormat, formattedDocument,
                 isProcessing, error, showCustomFormat, customFormat, localStorage,
                 now, locale, pc, run, file>>

\* the MIME types of the files: plain text, a document package, another
FileTypes == {TextPlain, DocxType, "application/pdf"}

\* the pieces the bytes of the files are made of: the zip signature "PK",
\* "<w:t>", "</w:t>", "<t x>", "</t>", a space, the letters a to q and
\* the byte 0xFF
FileFragments ==
  { <<80, 75>>, <<60, 119, 58, 116, 62>>, <<60, 47, 119, 58, 116, 62>>,
    <<60, 116, 32, 120, 62>>, <<60, 47, 116, 62>>, <<32>>,
    [i \in 1..17 |-> 96 + i], <<255>> }

\* number of fragments of the bytes of a file
MaxFileFragments == 4

InitExtraction ==
  /\ manuscriptText = <<>>
  /\ journalFormats = DEFAULT_JOURNAL_FORMATS
  /\ selectedFormat = DEFAULT_JOURNAL_FORMATS[1]
  /\ formattedDocument = Null
  /\ isProcessing = FALSE
  /\ error = Null
  /\ showCustomFormat = FALSE
  /\ customFormat = InitialCustomFormat
  /\ localStorage = Null
  /\ now = 0
  /\ locale = "en-US"
  /\ pc = "constructed"
  /\ run = Null
  /\ \E type \in FileTypes : \E bytes \in TextsOf(FileFragments, MaxFileFragments) :
       file = [type |-> type, bytes |-> bytes]
  /\ extraction = NotCalled

SpecExtraction == InitExtraction /\ [][extractTextFromFile]_vars

----------------------------------------------------------------------------
(* Vocabulary of the extraction properties.                                *)

\* the decoded content of the file
Content == decode(file.bytes)

\* the content starts with the zip signature
StartsWithPK == IsPrefix(<<"P", "K">>, Content)

\* s holds an element named tag, "<tag...>text</tag>", whose text has a
\* character that is not whitespace
HasElementText(s, tag) ==
  \E i \in {p \in 1..Len(s) : hasAt(s, p, <<"<">> \o tag, FALSE)} :
    \E gt \in {p \in (i + Len(tag) + 1)..Len(s) : s[p] = ">"} :
      \E lt \in {p \in (gt + 1)..Len(s) : hasAt(s, p, <<"<", "/">> \o tag \o <<">">>, FALSE)} :
        /\ \A j \in (i + Len(tag) + 1)..(gt - 1) : s[j] # ">"
        /\ \A j \in (gt + 1)..(lt - 1) : s[j] # "<"
        /\ \E j \in (gt + 1)..(lt - 1) : s[j] \notin Whitespace

\* the positions of s in a maximal run of at least min characters of cls
InRun(s, cls, min) ==
  {i \in 1..Len(s) :
     s[i] \in cls /\ runLengthBack(s, i, cls) + runLength(s, i, cls) - 1 >= min}

\* the number of maximal runs of at least min characters of cls
Runs(s, cls, min) ==
  Cardinality({i \in 1..Len(s) :
                 /\ s[i] \in cls
                 /\ (i = 1 \/ s[i - 1] \notin cls)
                 /\ runLength(s, i, cls) >= min})

\* the length of the readable material of s: its words of three letters or
\* more, its numbers and its runs of ". ! ?", with one space between them
ReadableLength(s) ==
  LET chars == Cardinality(InRun(s, LowerSet \cup UpperSet, 3))
               + Cardinality(InRun(s, DigitSet, 1))
               + Cardinality(InRun(s, {".", "!", "?"}, 1))
      pieces == Runs(s, LowerSet \cup UpperSet, 3) + Runs(s, DigitSet, 1)
                + Runs(s, {".", "!", "?"}, 1)
  IN IF pieces = 0 THEN 0 ELSE chars + pieces - 1

\* text content can be located in s: in a w:t element, in a t element, or
\* as more than MinReadable characters of readable material
Located(s) ==
  \/ HasElementText(s, <<"w", ":", "t">>)
  \/ HasElementText(s, <<"t">>)
  \/ ReadableLength(s) > MinReadable

(* C22: extraction is rejected with an explicit message, and returns no    *)
(* text, when the type is neither plain text nor a document package, when  *)
(* the bytes of a document package do not start with PK, and when no text  *)
(* content can be located in it; a document package whose extraction is    *)
(* fulfilled never yields the empty string.                                *)

C22_ExtractionFails ==
  extraction # NotCalled =>
    /\ file.type \notin {TextPlain, DocxType} =>
         extraction = rejected(UnsupportedTypeMessage)
    /\ (file.type = DocxType /\ ~StartsWithPK) =>
         extraction = rejected(FailedDocxMessage)
    /\ (file.type = DocxType /\ ~Located(Content)) =>
         extraction = rejected(FailedDocxMessage)
    /\ (file.type = DocxType /\ extraction.state = "fulfilled") =>
         extraction.value # <<>>
    /\ (file.type = DocxType /\ StartsWithPK /\ Located(Content)) =>
         extraction.state = "fulfilled"
    /\ extraction.state \in {"fulfilled", "rejected"}

C22_Witness ==
  /\ extraction = rejected(FailedDocxMessage)
  /\ file.type = DocxType
  /\ StartsWithPK
  /\ match(Content, LAMBDA s, i : elementMatch(<<"w", ":", "t">>, s, i)) # <<>>
  /\ ~Located(Content)

----------------------------------------------------------------------------
(* C23: a formatting request that returns a result has run, once each and  *)
(* in this order, the truncation, the title stage, the reference stage,    *)
(* the section stage, the paragraph stage and the banner stage, each on    *)
(* the output of the stage before it; the result holds the banner stage's  *)
(* output.                                                                 *)

StageOrder ==
  << "applyWordLimit", "formatTitles", "formatReferences", "formatSections",
     "formatParagraphs", "applyJournalSpecificFormatting" >>

C23_StageOrder ==
  Formatted =>
    LET st == run[1]
        format == formattedDocument[1].format
    IN /\ [k \in 1..Len(st) |-> st[k].stage] = StageOrder
       /\ st[1].out = applyWordLimit(manuscriptText, format.wordLimit)
       /\ st[2].out = formatTitles(st[1].out, format)
       /\ st[3].out = formatReferences(st[2].out, format.referenceStyle)
       /\ st[4].out = formatSections(st[3].out, format)
       /\ st[5].out = formatParagraphs(st[4].out, format)
       /\ st[6].out = applyJournalSpecificFormatting(st[5].out, format)
       /\ formattedDocument[1].content = st[6].out

C23_Witness ==
  /\ Formatted
  /\ stageOut("applyWordLimit") # trim(manuscriptText)
  /\ stageOut("formatReferences") # stageOut("formatTitles")
  /\ stageOut("formatSections") # stageOut("formatReferences")
  /\ stageOut("formatParagraphs") # stageOut("formatSections")

----------------------------------------------------------------------------
(* Manuscripts with section headings on lines of their own.                *)

\* number of fragments of the heading manuscripts
MaxHeadingFragments == 4

HeadingFragments ==
  { <<"t">>, <<" ">>,
    <<"\n", "\n", "R", "e", "s", "u", "l", "t", "s", "\n">>,
    <<"\n", "r", "e", "s", "u", "l", "t", "s", "\n">>,
    <<"\n", "\n", "A", "B", "S", "T", "R", "A", "C", "T", "\n">> }

InitHeadings ==
  \E text \in TextsOf(HeadingFragments, MaxHeadingFragments) :
    \E wordLimit \in {MaxWordLimit, 5000} :
      afterRegistration(text, draftOf(JournalName, wordLimit, Vancouver), "en-US")

SpecHeadings == InitHeadings /\ [][formatDocument]_vars

\* the section title that the line is, in some letter case; 0 when it is none
TitleOf(line) ==
  IF \E k \in 1..Len(sectionTitles) :
       Len(line) = Len(sectionTitles[k]) /\ hasAt(line, 1, sectionTitles[k], TRUE)
  THEN CHOOSE k \in 1..Len(sectionTitles) :
         Len(line) = Len(sectionTitles[k]) /\ hasAt(line, 1, sectionTitles[k], TRUE)
  ELSE 0

\* the k-th line of ls is an occurrence of "two newlines, a section name,
\* one newline": it is a section name, it follows an empty line that is not
\* the first line, and a line follows it
IsHeading(ls, k) ==
  k >= 3 /\ k < Len(ls) /\ ls[k - 1] = <<>> /\ TitleOf(ls[k]) > 0

\* s with every heading in upper case and followed by a line of "=" of
\* the length of the name
Underlined(s) ==
  LET ls == Lines(s)
  IN join([k \in 1..Len(ls) |->
             IF IsHeading(ls, k)
             THEN sectionTitles[TitleOf(ls[k])] \o <<"\n">>
                  \o repeat("=", Len(sectionTitles[TitleOf(ls[k])]))
             ELSE ls[k]],
          <<"\n">>)

(* C24: the title stage replaces every occurrence of two newlines, a       *)
(* section name in any letter case and one newline by two newlines, the    *)
(* name in upper case, one newline, as many "=" as the name has letters    *)
(* and one newline, and changes nothing else.                              *)

C24_EveryHeadingUnderlined ==
  Formatted =>
    stageOut("formatTitles") = Underlined(stageOut("applyWordLimit"))

(* C25: on a manuscript as it was submitted, without "=", the underline    *)
(* rule of the title stage never fires: the output of the title stage      *)
(* holds no "=".                                                           *)

Fresh == \A i \in 1..Len(manuscriptText) : manuscriptText[i] # "="

C25_UnderlineNeverAdded ==
  (Formatted /\ Fresh) =>
    \A i \in 1..Len(stageOut("formatTitles")) : stageOut("formatTitles")[i] # "="

(* C25, amended: on a manuscript as it was submitted, the underline rule   *)
(* of the title stage fires exactly when the text it receives has a        *)
(* section name on a line of its own after an empty line; it does not      *)
(* fire on a manuscript that was truncated.  The headers that the section  *)
(* stage makes afterwards get no underline from it.                        *)

C25_UnderlineOnHeadingLines ==
  (Formatted /\ Fresh) =>
    LET input == stageOut("applyWordLimit")
        output == stageOut("formatTitles")
        ls == Lines(input)
    IN /\ (output # input) <=> (\E k \in 1..Len(ls) : IsHeading(ls, k))
       /\ (\E i \in 1..Len(output) : output[i] = "=") <=> (output # input)
       /\ Len(Tokens(manuscriptText)) > selectedFormat.wordLimit => output = input

C25_Witness ==
  /\ Formatted
  /\ Fresh
  /\ stageOut("formatTitles") # stageOut("applyWordLimit")
  /\ \E i \in 1..Len(stageOut("formatTitles")) : stageOut("formatTitles")[i] = "="
  /\ stageOut("formatSections") # stageOut("formatReferences")

----------------------------------------------------------------------------
(* Sessions of editing, loading the sample, selecting, registering and     *)
(* formatting.                                                             *)

\* texts typed into the textarea of these sessions
ResultTexts == {<<" ">>, <<"a", " ", "[", "1", "]">>}

\* a registration of the session, at clock reading 1
registerOnce ==
  /\ customFormat.name = <<>> \/ Len(journalFormats) < Len(DEFAULT_JOURNAL_FORMATS) + 2
  /\ saveCustomFormat(1)

\* a click on the radio button of the first or of the last format
select ==
  \E i \in {1, Len(journalFormats)} : onChangeJournalFormat(journalFormats[i])

NextResult ==
  \/ mount
  \/ \E value \in ResultTexts : onChangeManuscriptText(value)
  \/ createTestDocument
  \/ select
  \/ toggleCustomFormat
  \/ onChangeName(JournalName)
  \/ registerOnce
  \/ formatDocument

SpecResult == InitSession /\ [][NextResult]_vars

(* C26: whenever a result is present, the manuscript is not blank, and the *)
(* content and the word count of the result are what the pipeline gives    *)
(* for the present manuscript under the format the result holds.           *)

C26_ResultOfCurrentText ==
  formattedDocument # Null =>
    /\ ~Blank(manuscriptText)
    /\ formattedDocument[1].content =
         applyJournalFormatting(
           applyWordLimit(manuscriptText, formattedDocument[1].format.wordLimit),
           formattedDocument[1].format)
    /\ formattedDocument[1].wordCount = Len(Tokens(formattedDocument[1].content))

C26_Witness ==
  /\ formattedDocument # Null
  /\ manuscriptText = testContent
  /\ formattedDocument[1].format # selectedFormat
  /\ selectedFormat = newFormat(customFormat, 1)
  /\ Len(journalFormats) > Len(DEFAULT_JOURNAL_FORMATS)

----------------------------------------------------------------------------
(* C27: when the key 'customFormats' is absent or holds an array of        *)
(* formats, then after start-up and after every registration, accepted or  *)
(* rejected, the list of formats is as long as the built-in list and the   *)
(* stored array together, and holds the built-in formats and then the      *)
(* stored formats, each at its place.                                      *)

C27_RegistryMatchesStorage ==
  (pc = "mounted" /\ ~CorruptStorage(localStorage)) =>
    LET stored == IF localStorage = Null THEN <<>> ELSE localStorage[1].items
        builtIn == Len(DEFAULT_JOURNAL_FORMATS)
    IN /\ Len(journalFormats) = builtIn + Len(stored)
       /\ \A i \in 1..builtIn : journalFormats[i] = DEFAULT_JOURNAL_FORMATS[i]
       /\ \A i \in 1..Len(stored) : journalFormats[builtIn + i] = stored[i]

C27_Witness ==
  /\ pc = "mounted"
  /\ error = Some(MissingNameMessage)
  /\ localStorage # Null
  /\ ValidStorage(localStorage)
  /\ Len(localStorage[1].items) = 2
  /\ localStorage[1].items[1] = StoredFormat
  /\ journalFormats = DEFAULT_JOURNAL_FORMATS \o localStorage[1].items

----------------------------------------------------------------------------
(* C28: a click on a radio button changes the selected format and nothing  *)
(* else of the component's state, and a registration, which selects the    *)
(* new format, leaves the manuscript and the result as they are: a result  *)
(* that is present is neither cleared nor computed again.                  *)

C28_SelectionKeepsResult ==
  [][/\ select =>
          UNCHANGED <<manuscriptText, journalFormats, formattedDocument, isProcessing,
                      error, showCustomFormat, customFormat, localStorage>>
     /\ registerOnce =>
          UNCHANGED <<manuscriptText, formattedDocument, isProcessing>>]_vars

C28_Witness ==
  /\ formattedDocument # Null
  /\ error = Null
  /\ formattedDocument[1].format = DEFAULT_JOURNAL_FORMATS[1]
  /\ selectedFormat # DEFAULT_JOURNAL_FORMATS[1]
  /\ \E i \in 1..Len(DEFAULT_JOURNAL_FORMATS) : selectedFormat = DEFAULT_JOURNAL_FORMATS[i]
  /\ formattedDocument[1].content
       # applyJournalFormatting(applyWordLimit(manuscriptText, selectedFormat.wordLimit),
                                selectedFormat)
====
